---- MODULE Spec2Model ----
(***************************************************************************)
(* MP/M II emulator: the XIOS trap dispatcher (xios.cpp), the bootstrap    *)
(* BDOS emulation (XIOS::do_bdos) and the thread-safe console queue        *)
(* (console_queue.h), modelled as state machines.                          *)
(***************************************************************************)
EXTENDS Integers, Sequences, FiniteSets, TLC

(***************************************************************************)
(* Program constants.  The slot offsets are those of the XIOS jump table   *)
(* (xios.asm): slot k lies at offset 3*k.                                  *)
(***************************************************************************)
XIOS_BOOT == 0
XIOS_WBOOT == 3
XIOS_CONST == 6
XIOS_CONIN == 9
XIOS_CONOUT == 12
XIOS_LIST == 15
XIOS_PUNCH == 18
XIOS_READER == 21
XIOS_HOME == 24
XIOS_SELDSK == 27
XIOS_SETTRK == 30
XIOS_SETSEC == 33
XIOS_SETDMA == 36
XIOS_READ == 39
XIOS_WRITE == 42
XIOS_LISTST == 45
XIOS_SECTRAN == 48
XIOS_SELMEMORY == 51
XIOS_POLLDEVICE == 54
XIOS_STARTCLOCK == 57
XIOS_STOPCLOCK == 60
XIOS_EXITREGION == 63
XIOS_MAXCONSOLE == 66
XIOS_SYSTEMINIT == 69
XIOS_IDLE == 72

\* Number of consoles reported by max-console (nmbcns).
MAX_CONSOLES == 8

\* XIOS::XIOS: the defaults of the constructor.
DEFAULT_XIOS_BASE == 64512
DEFAULT_LDRBIOS_BASE == 5888
DEFAULT_BDOS_STUB == 3334
DEFAULT_DMA == 128

\* The window of addresses is_xios_call examines above a table's base.
WINDOW == 256

\* Each disk parameter header is 16 bytes; the table starts WINDOW bytes
\* above the base of the jump table.
DPH_SIZE == 16

\* Registers and guest addresses are 16 bits wide, bytes 8 bits.
WORD_MOD == 65536
BYTE_MOD == 256

\* A logical sector is 128 bytes.
SECTOR_SIZE == 128

\* Sentinel returned by the reader and by console input without a console.
EOF_CHAR == 26

\* Truncation into a uint16_t / uint8_t.
Word(x) == x % WORD_MOD
Byte(x) == x % BYTE_MOD
\* get_low / get_high of a register pair.
get_low(w) == w % BYTE_MOD
get_high(w) == w \div BYTE_MOD

VARIABLES
    xios_base_,        \* XIOS: base of the full jump table
    ldrbios_base_,     \* XIOS: base of the loader's BIOS table
    bdos_stub_,        \* XIOS: the loader's BDOS entry
    current_disk_, current_track_, current_sector_, dma_addr_,
    tick_enabled_, preempted_,
    A, BC, DE, HL, SP, PC, IFF1, IFF2,   \* qkz80 registers
    mem, bank,         \* BankedMemory: sparse guest memory, selected bank
    registry, con_in, con_out,           \* ConsoleManager and its consoles
    con_wrote,         \* the write_char calls of the dispatch in progress
    dsk_mounted, dsk_sel, dsk_track, dsk_sector, dsk_dma, dsk_xfer, \* DiskSystem
    phase,             \* "guest": the guest runs; "trap": the emulator examines
                       \* PC; "ret": the emulator hands the CPU back
    ncalls,            \* how many calls the guest has made
    d_kind, d_ret, d_handler, d_ldr, d_off,  \* what the last dispatch computed
    g_trk, g_sec, g_dma,                 \* what the guest last asked to latch
    t_seen,            \* what the last tick() loaded from tick_enabled_
    queue_,            \* ConsoleQueue: the bytes queued, oldest first
    q_thr,             \* the host threads using that queue, and where each is
    q_last,            \* the call that returned last, and what it returned
    h_written, h_read, \* the bytes writes were granted, and reads returned,
                       \* since the last clear
    tickn, cnt60, preemp,  \* the guest XIOS data bytes (bnkxios.asm)
    ih_pc,             \* where the guest is in inthnd ("out": elsewhere)
    ih_stk,            \* what inthnd's pushes and calls have stacked
    ih_n,              \* how many interrupts the guest has taken
    ih_flags           \* the flags set through XDOS since the last interrupt

xiosv == <<xios_base_, ldrbios_base_, bdos_stub_>>
latched == <<current_disk_, current_track_, current_sector_, dma_addr_>>
flags == <<tick_enabled_, preempted_>>
regs == <<A, BC, DE, HL, SP, PC, IFF1, IFF2>>
memv == <<mem, bank>>
cons == <<registry, con_in, con_out, con_wrote>>
disk == <<dsk_mounted, dsk_sel, dsk_track, dsk_sector, dsk_dma, dsk_xfer>>
disp == <<d_kind, d_ret, d_handler, d_ldr, d_off>>
ghost == <<g_trk, g_sec, g_dma, t_seen>>
hist == <<h_written, h_read>>
qvars == <<queue_, q_thr, q_last, hist>>
inth == <<tickn, cnt60, preemp, ih_pc, ih_stk, ih_n, ih_flags>>
\* Everything but the queue and its threads.
emu == <<xiosv, latched, flags, regs, memv, cons, disk, phase, ncalls, disp, ghost,
         inth>>
vars == <<emu, qvars>>

(***************************************************************************)
(* XIOS::is_xios_call.  The sums xios_base_ + 0x100 are computed in int,   *)
(* so they do not wrap; the offsets are uint16_t.                          *)
(***************************************************************************)
\* Variant: the full table is taken to have one entry more.
is_xios_call_wide(pc) ==
    IF pc >= xios_base_ /\ pc < xios_base_ + WINDOW
    THEN LET offset == Word(pc - xios_base_)
         IN  (offset <= XIOS_IDLE + 3) /\ (offset % 3 = 0)
    ELSE IF pc >= ldrbios_base_ /\ pc < ldrbios_base_ + WINDOW
    THEN LET offset == Word(pc - ldrbios_base_)
         IN  (offset <= XIOS_SECTRAN) /\ (offset % 3 = 0)
    ELSE FALSE

is_xios_call(pc) ==
    IF pc >= xios_base_ /\ pc < xios_base_ + WINDOW
    THEN LET offset == Word(pc - xios_base_)
         IN  (offset <= XIOS_IDLE) /\ (offset % 3 = 0)
    ELSE IF pc >= ldrbios_base_ /\ pc < ldrbios_base_ + WINDOW
    THEN LET offset == Word(pc - ldrbios_base_)
         IN  (offset <= XIOS_SECTRAN) /\ (offset % 3 = 0)
    ELSE FALSE

(***************************************************************************)
(* ConsoleQueue<CAPACITY> (console_queue.h): the queue operations as       *)
(* functions of the queue contents.  Every one runs with mtx_ held.        *)
(***************************************************************************)
\* The template parameter; the model instantiates a small queue.
CAPACITY == 2

available(q) == Len(q)
\* size_t arithmetic is modular.  Its modulus, 2^64, does not fit the
\* integers used here; any modulus larger than twice CAPACITY wraps the same
\* differences, so a 30-bit one stands in for it.
SIZE_MOD == 1073741824
\* CAPACITY - queue_.size(), computed in size_t.
space(q) == (CAPACITY - Len(q)) % SIZE_MOD
empty(q) == Len(q) = 0
full(q) == Len(q) >= CAPACITY

\* try_read: the value returned (-1 if empty) and the queue afterwards.
try_read_val(q) == IF Len(q) = 0 THEN -1 ELSE Head(q)
try_read_q(q) == IF Len(q) = 0 THEN q ELSE Tail(q)
\* try_write: whether the byte was accepted and the queue afterwards.
try_write_ok(q, ch) == ~(Len(q) >= CAPACITY)
try_write_q(q, ch) == IF Len(q) >= CAPACITY THEN q ELSE Append(q, ch)

(***************************************************************************)
(* ConsoleQueue used by host threads.  A thread is "idle" (outside any     *)
(* call), "blocked" (inside the condition variable's wait, mtx_ released)  *)
(* or "woken" (unblocked by a notify, a spurious wakeup or its deadline,   *)
(* about to take mtx_ again).  A thread blocked in read waits on           *)
(* not_empty_, one blocked in write on not_full_.  What a thread does      *)
(* while it holds mtx_ is one step.                                        *)
(***************************************************************************)
\* How many host threads share the queue.
QThreads == 2
Threads == 1 .. QThreads

IdleThread == [st |-> "idle", op |-> "none", ch |-> 0, timed |-> FALSE, expired |-> FALSE]
Blocked(op, ch, timeout_ms) ==
    [st |-> "blocked", op |-> op, ch |-> ch, timed |-> (timeout_ms # 0), expired |-> FALSE]
\* What a call returned: val is the value returned (1 and 0 for true and
\* false), data what read_some copied out; waited and timed tell whether
\* the thread had been inside a wait, and whether that wait had a deadline.
NoReturn ==
    [thread |-> 0, op |-> "none", val |-> 0, data |-> <<>>, waited |-> FALSE,
     timed |-> FALSE]
Returns(t, op, val, data) ==
    [thread |-> t, op |-> op, val |-> val, data |-> data,
     waited |-> (q_thr[t].st # "idle"), timed |-> q_thr[t].timed]

\* std::condition_variable::notify_one: the thread tables it can leave.
\* One thread blocked on the variable is unblocked; with none, nothing.
notify_one(T, op) ==
    LET W == {u \in DOMAIN T : T[u].st = "blocked" /\ T[u].op = op}
    IN  IF W = {} THEN {T} ELSE {[T EXCEPT ![u].st = "woken"] : u \in W}
\* std::condition_variable::notify_all.
notify_all(T, op) ==
    [u \in DOMAIN T |-> IF T[u].st = "blocked" /\ T[u].op = op
                       THEN [T[u] EXCEPT !.st = "woken"]
                       ELSE T[u]]

\* Variant: the newest byte is taken instead of the oldest.
pop_newest(t, op) ==
    /\ queue_' = SubSeq(queue_, 1, Len(queue_) - 1)
    /\ q_thr' \in notify_one([q_thr EXCEPT ![t] = IdleThread], "write")
    /\ q_last' = Returns(t, op, queue_[Len(queue_)], <<>>)

\* The common tail of try_read and read: pop the front, notify_one(not_full_).
pop_front(t, op) ==
    /\ queue_' = Tail(queue_)
    /\ q_thr' \in notify_one([q_thr EXCEPT ![t] = IdleThread], "write")
    /\ q_last' = Returns(t, op, Head(queue_), <<>>)
\* Variant: a byte pushed onto a non-empty queue replaces the newest one.
push_back_replaces(t, op, ch) ==
    /\ queue_' = IF queue_ = <<>> THEN <<ch>>
                 ELSE Append(SubSeq(queue_, 1, Len(queue_) - 1), ch)
    /\ q_thr' \in notify_one([q_thr EXCEPT ![t] = IdleThread], "read")
    /\ q_last' = Returns(t, op, 1, <<>>)

\* The common tail of try_write and write: push, notify_one(not_empty_).
push_back(t, op, ch) ==
    /\ queue_' = Append(queue_, ch)
    /\ q_thr' \in notify_one([q_thr EXCEPT ![t] = IdleThread], "read")
    /\ q_last' = Returns(t, op, 1, <<>>)
\* A call returns val without touching the queue.
gives_up(t, op, val) ==
    /\ queue_' = queue_
    /\ q_thr' = [q_thr EXCEPT ![t] = IdleThread]
    /\ q_last' = Returns(t, op, val, <<>>)

\* Variant: the byte is returned through a signed char.
try_read_signed(t) ==
    /\ UNCHANGED emu
    /\ q_thr[t].st = "idle"
    /\ IF empty(queue_)
       THEN gives_up(t, "try_read", -1)
       ELSE /\ queue_' = Tail(queue_)
            /\ q_thr' \in notify_one([q_thr EXCEPT ![t] = IdleThread], "write")
            /\ q_last' = Returns(t, "try_read",
                                 IF Head(queue_) >= 128 THEN Head(queue_) - 256
                                 ELSE Head(queue_), <<>>)

try_read(t) ==
    /\ UNCHANGED emu
    /\ q_thr[t].st = "idle"
    /\ IF empty(queue_) THEN gives_up(t, "try_read", -1) ELSE pop_front(t, "try_read")

\* read: entry up to the first wait.
read(t, timeout_ms) ==
    /\ UNCHANGED emu
    /\ q_thr[t].st = "idle"
    /\ IF ~empty(queue_)
       THEN pop_front(t, "read")
       ELSE /\ q_thr' = [q_thr EXCEPT ![t] = Blocked("read", 0, timeout_ms)]
            /\ UNCHANGED <<queue_, q_last>>

\* Variant: the wait has no predicate loop, so any wakeup on an empty queue
\* ends the call.
read_wakes_no_loop(t) ==
    /\ UNCHANGED emu
    /\ q_thr[t].st = "woken" /\ q_thr[t].op = "read"
    /\ IF ~empty(queue_)
       THEN pop_front(t, "read")
       ELSE gives_up(t, "read", -1)

\* Variant: the wait's result is ignored, so an expired deadline makes the
\* thread wait again.
read_wakes_ignores_deadline(t) ==
    /\ UNCHANGED emu
    /\ q_thr[t].st = "woken" /\ q_thr[t].op = "read"
    /\ IF ~empty(queue_)
       THEN pop_front(t, "read")
       ELSE /\ q_thr' = [q_thr EXCEPT ![t].st = "blocked"]
            /\ UNCHANGED <<queue_, q_last>>

\* read: the thread holds mtx_ again and evaluates the predicate.
read_wakes(t) ==
    /\ UNCHANGED emu
    /\ q_thr[t].st = "woken" /\ q_thr[t].op = "read"
    /\ IF ~empty(queue_)
       THEN pop_front(t, "read")
       ELSE IF q_thr[t].expired
       THEN gives_up(t, "read", -1)
       ELSE /\ q_thr' = [q_thr EXCEPT ![t].st = "blocked"]
            /\ UNCHANGED <<queue_, q_last>>

\* Variant: try_write waits for room like write does.
try_write_waits(t, ch) ==
    /\ UNCHANGED emu
    /\ q_thr[t].st = "idle"
    /\ IF Len(queue_) >= CAPACITY
       THEN /\ q_thr' = [q_thr EXCEPT ![t] = Blocked("write", ch, 0)]
            /\ UNCHANGED <<queue_, q_last>>
       ELSE push_back(t, "try_write", ch)

try_write(t, ch) ==
    /\ UNCHANGED emu
    /\ q_thr[t].st = "idle"
    /\ IF Len(queue_) >= CAPACITY
       THEN gives_up(t, "try_write", 0)
       ELSE push_back(t, "try_write", ch)

\* write: entry up to the first wait.
write(t, ch, timeout_ms) ==
    /\ UNCHANGED emu
    /\ q_thr[t].st = "idle"
    /\ IF Len(queue_) < CAPACITY
       THEN push_back(t, "write", ch)
       ELSE /\ q_thr' = [q_thr EXCEPT ![t] = Blocked("write", ch, timeout_ms)]
            /\ UNCHANGED <<queue_, q_last>>

\* Variant: an expired deadline ends the call before the predicate is looked
\* at, so room that is there at the deadline is not used.
write_wakes_deadline_first(t) ==
    /\ UNCHANGED emu
    /\ q_thr[t].st = "woken" /\ q_thr[t].op = "write"
    /\ IF q_thr[t].expired
       THEN gives_up(t, "write", 0)
       ELSE IF Len(queue_) < CAPACITY
       THEN push_back(t, "write", q_thr[t].ch)
       ELSE /\ q_thr' = [q_thr EXCEPT ![t].st = "blocked"]
            /\ UNCHANGED <<queue_, q_last>>

\* write: the thread holds mtx_ again and evaluates the predicate.
write_wakes(t) ==
    /\ UNCHANGED emu
    /\ q_thr[t].st = "woken" /\ q_thr[t].op = "write"
    /\ IF Len(queue_) < CAPACITY
       THEN push_back(t, "write", q_thr[t].ch)
       ELSE IF q_thr[t].expired
       THEN gives_up(t, "write", 0)
       ELSE /\ q_thr' = [q_thr EXCEPT ![t].st = "blocked"]
            /\ UNCHANGED <<queue_, q_last>>

\* How many bytes the loops of write_some and read_some move.
\* Variant: write_some's loop forgets the capacity test.
write_some_count_unbounded(q, len) == len

write_some_count(q, len) ==
    IF Len(q) >= CAPACITY THEN 0
    ELSE IF len < CAPACITY - Len(q) THEN len ELSE CAPACITY - Len(q)
\* Variant: read_some's loop ignores max_len.
read_some_count_all(q, max_len) == Len(q)

read_some_count(q, max_len) == IF max_len < Len(q) THEN max_len ELSE Len(q)

write_some(t, data) ==
    LET count == write_some_count(queue_, Len(data))
    IN  /\ UNCHANGED emu
        /\ q_thr[t].st = "idle"
        /\ queue_' = queue_ \o SubSeq(data, 1, count)
        /\ q_thr' \in (IF count > 0 THEN notify_one(q_thr, "read") ELSE {q_thr})
        /\ q_last' = Returns(t, "write_some", count, <<>>)

read_some(t, max_len) ==
    LET count == read_some_count(queue_, max_len)
    IN  /\ UNCHANGED emu
        /\ q_thr[t].st = "idle"
        /\ queue_' = SubSeq(queue_, count + 1, Len(queue_))
        /\ q_thr' \in (IF count > 0 THEN notify_one(q_thr, "write") ELSE {q_thr})
        /\ q_last' = Returns(t, "read_some", count, SubSeq(queue_, 1, count))

\* Variant: clear notifies one waiting writer only.
clear_notify_one(t) ==
    /\ UNCHANGED emu
    /\ q_thr[t].st = "idle"
    /\ queue_' = <<>>
    /\ q_thr' \in notify_one(q_thr, "write")
    /\ q_last' = Returns(t, "clear", 0, <<>>)

clear(t) ==
    /\ UNCHANGED emu
    /\ q_thr[t].st = "idle"
    /\ queue_' = <<>>
    /\ q_thr' = notify_all(q_thr, "write")
    /\ q_last' = Returns(t, "clear", 0, <<>>)

\* A wait may end without a notify (spurious wakeup).
spurious_wakeup(t) ==
    /\ UNCHANGED emu
    /\ q_thr[t].st = "blocked"
    /\ q_thr' = [q_thr EXCEPT ![t].st = "woken"]
    /\ UNCHANGED <<queue_, q_last>>

\* The deadline of a timed wait passes.
deadline_passes(t) ==
    /\ UNCHANGED emu
    /\ q_thr[t].st \in {"blocked", "woken"}
    /\ q_thr[t].timed /\ ~q_thr[t].expired
    /\ q_thr' = [q_thr EXCEPT ![t].st = "woken", ![t].expired = TRUE]
    /\ UNCHANGED <<queue_, q_last>>

(***************************************************************************)
(* BankedMemory, as the dispatcher uses it: fetch_mem and select_bank.     *)
(* Memory is kept sparse: a cell that was never stored reads as 0.         *)
(***************************************************************************)
fetch_mem(m, a) == IF a \in DOMAIN m THEN m[a] ELSE 0
store_mem(m, a, v) == [x \in DOMAIN m \cup {a} |-> IF x = a THEN v ELSE m[x]]
store_range(m, S, v) == [x \in DOMAIN m \cup S |-> IF x \in S THEN v ELSE m[x]]

(***************************************************************************)
(* ConsoleManager / Console, as the dispatcher uses them: get(i) yields a  *)
(* console iff i is in the registry; a console is a pair of queues.        *)
(***************************************************************************)
\* The consoles init() establishes.
NumConsoles == 2
ConfiguredConsoles == 0 .. (NumConsoles - 1)

ConsoleManager_get(i) == i \in registry
Console_const_status(c) == IF Len(con_in[c]) > 0 THEN 255 ELSE 0
\* read_char never blocks: the next input byte, or the EOF sentinel.
Console_read_char_val(c) == IF Len(con_in[c]) = 0 THEN EOF_CHAR ELSE Head(con_in[c])
Console_read_char_in(c) == [con_in EXCEPT ![c] = try_read_q(@)]
\* write_char never blocks: the byte is dropped when the output queue is full.
Console_write_char(out, c, ch) == [out EXCEPT ![c] = try_write_q(@, ch)]
\* One call con->write_char(ch) on console c, as con_wrote records it.
WriteCall(c, ch) == [con |-> c, ch |-> ch]

(***************************************************************************)
(* DiskSystem, as the dispatcher uses it.  select succeeds iff the disk is *)
(* mounted; a transfer returns an engine-defined status, 0 for success.    *)
(***************************************************************************)
DiskSystem_select_ok(d) == d \in dsk_mounted
DiskSystem_select_sel(d) == IF d \in dsk_mounted THEN d ELSE dsk_sel
\* The status codes a transfer may return.
DiskResults == {0, 1, 255}
\* The guest cells a transfer at DMA address d covers.
DmaCells(d) == {Word(d + i) : i \in 0 .. (SECTOR_SIZE - 1)}

(***************************************************************************)
(* XIOS::do_ret: pop the return address.  It runs last in every handler,   *)
(* so it reads the memory the handler leaves (mem').                       *)
(***************************************************************************)
do_ret ==
    LET sp == SP
        lo == fetch_mem(mem', sp)
        hi == fetch_mem(mem', Word(sp + 1))
    IN  /\ SP' = Word(sp + 2)
        /\ PC' = Word(hi * BYTE_MOD + lo)

\* A handler that only returns.
only_ret ==
    /\ UNCHANGED <<A, HL, IFF1, IFF2, latched, flags, memv, cons, disk>>
    /\ do_ret

do_boot == only_ret
do_wboot == only_ret
do_list == only_ret
do_punch == only_ret
do_idle == only_ret

do_const ==
    LET console == get_high(DE)
    IN  /\ A' = IF ConsoleManager_get(console)
                THEN Console_const_status(console) ELSE 0
        /\ UNCHANGED <<HL, IFF1, IFF2, latched, flags, memv, cons, disk>>
        /\ do_ret

\* Variant: console input waits until a byte has been typed.
do_conin_waits ==
    LET console == get_high(DE)
    IN  /\ ConsoleManager_get(console) => Len(con_in[console]) > 0
        /\ IF ConsoleManager_get(console)
           THEN /\ A' = Console_read_char_val(console)
                /\ con_in' = Console_read_char_in(console)
           ELSE /\ A' = EOF_CHAR
                /\ con_in' = con_in
        /\ UNCHANGED <<HL, IFF1, IFF2, latched, flags, memv, registry, con_out, con_wrote,
                       disk>>
        /\ do_ret

do_conin ==
    LET console == get_high(DE)
    IN  /\ IF ConsoleManager_get(console)
           THEN /\ A' = Console_read_char_val(console)
                /\ con_in' = Console_read_char_in(console)
           ELSE /\ A' = EOF_CHAR
                /\ con_in' = con_in
        /\ UNCHANGED <<HL, IFF1, IFF2, latched, flags, memv, registry, con_out, con_wrote,
                       disk>>
        /\ do_ret

\* Variant: a character for a console that does not exist goes to console 0.
do_conout_fallback ==
    LET wanted == IF PC >= xios_base_ THEN get_high(DE) ELSE 0
        console == IF ConsoleManager_get(wanted) THEN wanted ELSE 0
        ch == get_low(BC)
    IN  /\ con_out' = IF ConsoleManager_get(console)
                      THEN Console_write_char(con_out, console, ch)
                      ELSE con_out
        /\ con_wrote' = IF ConsoleManager_get(console)
                        THEN <<WriteCall(console, ch)>>
                        ELSE <<>>
        /\ UNCHANGED <<A, HL, IFF1, IFF2, latched, flags, memv, registry, con_in, disk>>
        /\ do_ret

\* Variant: console output takes the console number from D in both tables.
do_conout_by_d ==
    LET console == get_high(DE)
        ch == get_low(BC)
    IN  /\ con_out' = IF ConsoleManager_get(console)
                      THEN Console_write_char(con_out, console, ch)
                      ELSE con_out
        /\ con_wrote' = IF ConsoleManager_get(console)
                        THEN <<WriteCall(console, ch)>>
                        ELSE <<>>
        /\ UNCHANGED <<A, HL, IFF1, IFF2, latched, flags, memv, registry, con_in, disk>>
        /\ do_ret

do_conout ==
    LET console == IF PC >= xios_base_ THEN get_high(DE) ELSE 0
        ch == get_low(BC)
    IN  /\ con_out' = IF ConsoleManager_get(console)
                      THEN Console_write_char(con_out, console, ch)
                      ELSE con_out
        /\ con_wrote' = IF ConsoleManager_get(console)
                        THEN <<WriteCall(console, ch)>>
                        ELSE <<>>
        /\ UNCHANGED <<A, HL, IFF1, IFF2, latched, flags, memv, registry, con_in, disk>>
        /\ do_ret

do_reader ==
    /\ A' = EOF_CHAR
    /\ UNCHANGED <<HL, IFF1, IFF2, latched, flags, memv, cons, disk>>
    /\ do_ret

do_listst ==
    /\ A' = 255
    /\ UNCHANGED <<HL, IFF1, IFF2, latched, flags, memv, cons, disk>>
    /\ do_ret

do_home ==
    /\ current_track_' = 0
    /\ UNCHANGED <<current_disk_, current_sector_, dma_addr_>>
    /\ UNCHANGED <<A, HL, IFF1, IFF2, flags, memv, cons, disk>>
    /\ do_ret

\* Variant: the rejection path forgets the return.
do_seldsk_noret ==
    LET disk_ == get_low(BC)
    IN  /\ dsk_sel' = DiskSystem_select_sel(disk_)
        /\ UNCHANGED <<current_track_, current_sector_, dma_addr_>>
        /\ UNCHANGED <<dsk_mounted, dsk_track, dsk_sector, dsk_dma, dsk_xfer>>
        /\ UNCHANGED <<A, IFF1, IFF2, flags, memv, cons>>
        /\ IF ~DiskSystem_select_ok(disk_)
           THEN /\ HL' = 0
                /\ current_disk_' = current_disk_
                /\ UNCHANGED <<SP, PC>>
           ELSE /\ current_disk_' = disk_
                /\ HL' = Word(xios_base_ + WINDOW + (disk_ * DPH_SIZE))
                /\ do_ret

\* Variant: current_disk_ is latched before the engine answers.
do_seldsk_latch_first ==
    LET disk_ == get_low(BC)
    IN  /\ dsk_sel' = DiskSystem_select_sel(disk_)
        /\ IF ~DiskSystem_select_ok(disk_)
           THEN /\ HL' = 0
                /\ current_disk_' = disk_
           ELSE /\ current_disk_' = disk_
                /\ HL' = Word(xios_base_ + WINDOW + (disk_ * DPH_SIZE))
        /\ UNCHANGED <<current_track_, current_sector_, dma_addr_>>
        /\ UNCHANGED <<dsk_mounted, dsk_track, dsk_sector, dsk_dma, dsk_xfer>>
        /\ UNCHANGED <<A, IFF1, IFF2, flags, memv, cons>>
        /\ do_ret

\* Variant: the table address is computed with 8 bytes per drive.
do_seldsk_dph8 ==
    LET disk_ == get_low(BC)
    IN  /\ dsk_sel' = DiskSystem_select_sel(disk_)
        /\ IF ~DiskSystem_select_ok(disk_)
           THEN /\ HL' = 0
                /\ current_disk_' = current_disk_
           ELSE /\ current_disk_' = disk_
                /\ HL' = Word(xios_base_ + WINDOW + (disk_ * 8))
        /\ UNCHANGED <<current_track_, current_sector_, dma_addr_>>
        /\ UNCHANGED <<dsk_mounted, dsk_track, dsk_sector, dsk_dma, dsk_xfer>>
        /\ UNCHANGED <<A, IFF1, IFF2, flags, memv, cons>>
        /\ do_ret

do_seldsk ==
    LET disk_ == get_low(BC)
    IN  /\ dsk_sel' = DiskSystem_select_sel(disk_)
        /\ IF ~DiskSystem_select_ok(disk_)
           THEN /\ HL' = 0
                /\ current_disk_' = current_disk_
           ELSE /\ current_disk_' = disk_
                /\ HL' = Word(xios_base_ + WINDOW + (disk_ * DPH_SIZE))
        /\ UNCHANGED <<current_track_, current_sector_, dma_addr_>>
        /\ UNCHANGED <<dsk_mounted, dsk_track, dsk_sector, dsk_dma, dsk_xfer>>
        /\ UNCHANGED <<A, IFF1, IFF2, flags, memv, cons>>
        /\ do_ret

do_settrk ==
    /\ current_track_' = BC
    /\ UNCHANGED <<current_disk_, current_sector_, dma_addr_>>
    /\ UNCHANGED <<A, HL, IFF1, IFF2, flags, memv, cons, disk>>
    /\ do_ret

\* Variant: set-sector stores into the track field.
do_setsec_into_track ==
    /\ current_track_' = BC
    /\ UNCHANGED <<current_disk_, current_sector_, dma_addr_>>
    /\ UNCHANGED <<A, HL, IFF1, IFF2, flags, memv, cons, disk>>
    /\ do_ret

do_setsec ==
    /\ current_sector_' = BC
    /\ UNCHANGED <<current_disk_, current_track_, dma_addr_>>
    /\ UNCHANGED <<A, HL, IFF1, IFF2, flags, memv, cons, disk>>
    /\ do_ret

do_setdma ==
    /\ dma_addr_' = BC
    /\ UNCHANGED <<current_disk_, current_track_, current_sector_>>
    /\ UNCHANGED <<A, HL, IFF1, IFF2, flags, memv, cons, disk>>
    /\ do_ret

\* DiskSystem: set_track, set_sector, set_dma, then the transfer, which
\* sees the engine's own fields.
DiskSystem_present(op, result) ==
    /\ dsk_track' = current_track_
    /\ dsk_sector' = current_sector_
    /\ dsk_dma' = dma_addr_
    /\ dsk_xfer' = [op |-> op, disk |-> dsk_sel, track |-> dsk_track',
                    sector |-> dsk_sector', dma |-> dsk_dma', result |-> result]
    /\ UNCHANGED <<dsk_mounted, dsk_sel>>

\* Variant: a read moves on to the next sector.
do_read_advances ==
    \E result \in DiskResults :
        /\ DiskSystem_present("read", result)
        /\ mem' = IF result = 0
                  THEN store_range(mem, DmaCells(dsk_dma'), 229)
                  ELSE mem
        /\ A' = Byte(result)
        /\ current_sector_' = Word(current_sector_ + 1)
        /\ UNCHANGED <<current_disk_, current_track_, dma_addr_>>
        /\ UNCHANGED <<HL, IFF1, IFF2, flags, bank, cons>>
        /\ do_ret

do_read ==
    \E result \in DiskResults :
        /\ DiskSystem_present("read", result)
        \* a successful read stores the sector at the engine's DMA address
        /\ mem' = IF result = 0
                  THEN store_range(mem, DmaCells(dsk_dma'), 229)
                  ELSE mem
        /\ A' = Byte(result)
        /\ UNCHANGED <<HL, IFF1, IFF2, latched, flags, bank, cons>>
        /\ do_ret

\* Variant: write folds every error into 1.
do_write_flag ==
    \E result \in DiskResults :
        /\ DiskSystem_present("write", result)
        /\ A' = IF result = 0 THEN 0 ELSE 1
        /\ UNCHANGED <<HL, IFF1, IFF2, latched, flags, memv, cons>>
        /\ do_ret

do_write ==
    \E result \in DiskResults :
        /\ DiskSystem_present("write", result)
        /\ A' = Byte(result)
        /\ UNCHANGED <<HL, IFF1, IFF2, latched, flags, memv, cons>>
        /\ do_ret

do_sectran ==
    /\ HL' = BC
    /\ UNCHANGED <<A, IFF1, IFF2, latched, flags, memv, cons, disk>>
    /\ do_ret

do_selmemory ==
    LET desc_addr == BC
    IN  /\ bank' = fetch_mem(mem, Word(desc_addr + 3))
        /\ mem' = mem
        /\ UNCHANGED <<A, HL, IFF1, IFF2, latched, flags, cons, disk>>
        /\ do_ret

\* Variant: polling takes the byte it found.
do_polldevice_reads ==
    LET device == get_low(BC)
        console == device - 5
        ready == device >= 5 /\ device <= 8 /\ ConsoleManager_get(console)
                 /\ Console_const_status(console) # 0
    IN  /\ A' = IF device <= 4 \/ ready THEN 255 ELSE 0
        /\ con_in' = IF ready THEN Console_read_char_in(console) ELSE con_in
        /\ UNCHANGED <<HL, IFF1, IFF2, latched, flags, memv, registry, con_out, con_wrote,
                       disk>>
        /\ do_ret

do_polldevice ==
    LET device == get_low(BC)
        result == IF device = 0 THEN 255
                  ELSE IF device >= 1 /\ device <= 4 THEN 255
                  ELSE IF device >= 5 /\ device <= 8
                  THEN LET console == device - 5
                       IN  IF ConsoleManager_get(console)
                              /\ Console_const_status(console) # 0
                           THEN 255 ELSE 0
                  ELSE 0
    IN  /\ A' = result
        /\ UNCHANGED <<HL, IFF1, IFF2, latched, flags, memv, cons, disk>>
        /\ do_ret

do_startclock ==
    /\ tick_enabled_' = TRUE
    /\ UNCHANGED <<preempted_, A, HL, IFF1, IFF2, latched, memv, cons, disk>>
    /\ do_ret

\* Variant: stop-clock flips the flag.
do_stopclock_toggle ==
    /\ tick_enabled_' = ~tick_enabled_
    /\ UNCHANGED <<preempted_, A, HL, IFF1, IFF2, latched, memv, cons, disk>>
    /\ do_ret

do_stopclock ==
    /\ tick_enabled_' = FALSE
    /\ UNCHANGED <<preempted_, A, HL, IFF1, IFF2, latched, memv, cons, disk>>
    /\ do_ret

\* Variant: exit-region enables interrupts without looking at preempted_.
do_exitregion_unconditional ==
    /\ IFF1' = 1 /\ IFF2' = 1
    /\ UNCHANGED <<A, HL, latched, flags, memv, cons, disk>>
    /\ do_ret

do_exitregion ==
    /\ IF ~preempted_
       THEN IFF1' = 1 /\ IFF2' = 1
       ELSE UNCHANGED <<IFF1, IFF2>>
    /\ UNCHANGED <<A, HL, latched, flags, memv, cons, disk>>
    /\ do_ret

do_maxconsole ==
    /\ A' = MAX_CONSOLES
    /\ UNCHANGED <<HL, IFF1, IFF2, latched, flags, memv, cons, disk>>
    /\ do_ret

\* ConsoleManager::init() establishes the configured consoles.
do_systeminit ==
    /\ registry' = ConfiguredConsoles
    /\ UNCHANGED <<con_in, con_out, con_wrote>>
    /\ UNCHANGED <<A, HL, IFF1, IFF2, latched, flags, memv, disk>>
    /\ do_ret

(***************************************************************************)
(* XIOS::handle_call.  d_ret is the value returned, d_handler the handler  *)
(* that ran, d_ldr and d_off the locals is_ldrbios and offset.             *)
(***************************************************************************)
\* return false: nothing is touched.
declined ==
    /\ d_ret' = FALSE
    /\ d_handler' = "none"
    /\ UNCHANGED <<A, HL, SP, PC, IFF1, IFF2, latched, flags, memv, cons, disk>>

ran(h) == d_ret' = TRUE /\ d_handler' = h

\* Variant: the bootstrap select-disk slot is intercepted like any other.
native_seldsk_never(is_ldrbios, offset) == FALSE

\* The bootstrap table's select-disk is left to the guest's own code.
native_seldsk(is_ldrbios, offset) == is_ldrbios /\ offset = XIOS_SELDSK

\* The part of handle_call after the is_xios_call test.
dispatch(pc) ==
         LET is_ldrbios == (pc < xios_base_)
             offset == IF pc >= xios_base_
                       THEN Word(pc - xios_base_)
                       ELSE Word(pc - ldrbios_base_)
         IN  /\ d_ldr' = is_ldrbios
             /\ d_off' = offset
             /\ IF native_seldsk(is_ldrbios, offset)
                THEN declined
                ELSE CASE offset = XIOS_BOOT -> ran("do_boot") /\ do_boot
                       [] offset = XIOS_WBOOT -> ran("do_wboot") /\ do_wboot
                       [] offset = XIOS_CONST -> ran("do_const") /\ do_const
                       [] offset = XIOS_CONIN -> ran("do_conin") /\ do_conin
                       [] offset = XIOS_CONOUT -> ran("do_conout") /\ do_conout
                       [] offset = XIOS_LIST -> ran("do_list") /\ do_list
                       [] offset = XIOS_PUNCH -> ran("do_punch") /\ do_punch
                       [] offset = XIOS_READER -> ran("do_reader") /\ do_reader
                       [] offset = XIOS_HOME -> ran("do_home") /\ do_home
                       [] offset = XIOS_SELDSK -> ran("do_seldsk") /\ do_seldsk
                       [] offset = XIOS_SETTRK -> ran("do_settrk") /\ do_settrk
                       [] offset = XIOS_SETSEC -> ran("do_setsec") /\ do_setsec
                       [] offset = XIOS_SETDMA -> ran("do_setdma") /\ do_setdma
                       [] offset = XIOS_READ -> ran("do_read") /\ do_read
                       [] offset = XIOS_WRITE -> ran("do_write") /\ do_write
                       [] offset = XIOS_LISTST -> ran("do_listst") /\ do_listst
                       [] offset = XIOS_SECTRAN -> ran("do_sectran") /\ do_sectran
                       [] offset = XIOS_SELMEMORY -> ran("do_selmemory") /\ do_selmemory
                       [] offset = XIOS_POLLDEVICE -> ran("do_polldevice") /\ do_polldevice
                       [] offset = XIOS_STARTCLOCK -> ran("do_startclock") /\ do_startclock
                       [] offset = XIOS_STOPCLOCK -> ran("do_stopclock") /\ do_stopclock
                       [] offset = XIOS_EXITREGION -> ran("do_exitregion") /\ do_exitregion
                       [] offset = XIOS_MAXCONSOLE -> ran("do_maxconsole") /\ do_maxconsole
                       [] offset = XIOS_SYSTEMINIT -> ran("do_systeminit") /\ do_systeminit
                       [] offset = XIOS_IDLE -> ran("do_idle") /\ do_idle
                       [] OTHER -> declined

\* Variant: the is_xios_call test is missing.
handle_call_unguarded(pc) == dispatch(pc)

handle_call_body(pc) ==
    IF ~is_xios_call(pc)
    THEN declined /\ d_ldr' = FALSE /\ d_off' = -1
    ELSE dispatch(pc)

\* The emulator hands the program counter the guest reached to handle_call.
handle_call ==
    /\ phase = "trap"
    /\ phase' = "ret"
    /\ d_kind' = "handle_call"
    /\ handle_call_body(PC)
    /\ UNCHANGED <<BC, DE, xiosv, ghost, ncalls, qvars, inth>>

(***************************************************************************)
(* XIOS::do_bdos: the loader's BDOS, keyed on the function number in C.    *)
(* (The debug trace of the first 50 calls writes to stderr only.)          *)
(***************************************************************************)
\* The safety limit of print-string.
PRINT_LIMIT == 1000
\* '$', the terminator of print-string.
DOLLAR == 36

\* Variant: the loop writes the '$' before it stops.
print_count_with_dollar(m, addr) ==
    LET stops == {i \in 0 .. (PRINT_LIMIT - 1) : fetch_mem(m, Word(addr + i)) = DOLLAR}
    IN  IF stops = {} THEN PRINT_LIMIT
        ELSE (CHOOSE i \in stops : \A j \in stops : i <= j) + 1

\* case 9: the bytes the loop hands to write_char, in order: those from addr
\* up to the first '$', at most PRINT_LIMIT of them (addr++ wraps at 16 bits).
print_count(m, addr) ==
    LET stops == {i \in 0 .. (PRINT_LIMIT - 1) : fetch_mem(m, Word(addr + i)) = DOLLAR}
    IN  IF stops = {} THEN PRINT_LIMIT
        ELSE CHOOSE i \in stops : \A j \in stops : i <= j
print_chars(m, addr) ==
    [i \in 1 .. print_count(m, addr) |-> fetch_mem(m, Word(addr + i - 1))]
\* The calls con->write_char(ch) the loop makes, in order.
print_calls(m, addr) ==
    LET n == print_count(m, addr)
    IN  [i \in 1 .. n |-> WriteCall(0, fetch_mem(m, Word(addr + i - 1)))]
\* write_char of each in turn: the queue takes them while it has space.
print_string(q, m, addr) ==
    LET chars == print_chars(m, addr)
        n == IF Len(chars) <= space(q) THEN Len(chars) ELSE space(q)
    IN  q \o SubSeq(chars, 1, n)

\* Variant: the input request of function 6 echoes the byte it returns.
bdos_direct_io_echo(de, con) ==
    IF (de % BYTE_MOD) = 255
    THEN /\ IF con /\ Console_const_status(0) # 0
            THEN /\ A' = Console_read_char_val(0)
                 /\ con_in' = Console_read_char_in(0)
                 /\ con_out' = Console_write_char(con_out, 0, Console_read_char_val(0))
                 /\ con_wrote' = <<WriteCall(0, Console_read_char_val(0))>>
            ELSE /\ A' = 0
                 /\ UNCHANGED <<con_in, con_out, con_wrote>>
         /\ UNCHANGED <<HL, latched, registry, disk>>
    ELSE /\ con_out' = IF con
                       THEN Console_write_char(con_out, 0, de % BYTE_MOD)
                       ELSE con_out
         /\ con_wrote' = IF con THEN <<WriteCall(0, de % BYTE_MOD)>> ELSE <<>>
         /\ UNCHANGED <<A, HL, latched, registry, con_in, disk>>

\* case 6, direct console I/O: E = 0xFF asks for input, any other E is output.
bdos_direct_io(de, con) ==
    IF (de % BYTE_MOD) = 255
    THEN /\ IF con /\ Console_const_status(0) # 0
            THEN /\ A' = Console_read_char_val(0)
                 /\ con_in' = Console_read_char_in(0)
            ELSE /\ A' = 0
                 /\ con_in' = con_in
         /\ UNCHANGED <<HL, latched, registry, con_out, con_wrote, disk>>
    ELSE /\ con_out' = IF con
                       THEN Console_write_char(con_out, 0, de % BYTE_MOD)
                       ELSE con_out
         /\ con_wrote' = IF con THEN <<WriteCall(0, de % BYTE_MOD)>> ELSE <<>>
         /\ UNCHANGED <<A, HL, latched, registry, con_in, disk>>

\* Variant: an unknown function number reports failure in A.
bdos_unknown_fails ==
    /\ A' = 255
    /\ UNCHANGED <<HL, latched, cons, disk>>

\* default: an unknown function number does nothing.
bdos_unknown == UNCHANGED <<A, HL, latched, cons, disk>>

\* Variant: function 14 latches the disk only if the engine accepts it,
\* and reports failure otherwise, as the full table's select-disk does.
bdos_select_disk_checked(de) ==
    /\ dsk_sel' = DiskSystem_select_sel(de % 16)
    /\ IF DiskSystem_select_ok(de % 16)
       THEN current_disk_' = de % 16 /\ A' = 0
       ELSE current_disk_' = current_disk_ /\ A' = 255
    /\ UNCHANGED <<current_track_, current_sector_, dma_addr_>>
    /\ UNCHANGED <<dsk_mounted, dsk_track, dsk_sector, dsk_dma, dsk_xfer>>
    /\ UNCHANGED <<HL, cons>>

\* do_bdos, case 14: select disk.
bdos_select_disk(de) ==
    /\ current_disk_' = de % 16
    /\ dsk_sel' = DiskSystem_select_sel(current_disk_')
    /\ A' = 0
    /\ UNCHANGED <<current_track_, current_sector_, dma_addr_>>
    /\ UNCHANGED <<dsk_mounted, dsk_track, dsk_sector, dsk_dma, dsk_xfer>>
    /\ UNCHANGED <<HL, cons>>

\* Variant: function 26 keeps the DMA address in a variable of its own,
\* which the table handlers do not read.
bdos_set_dma_private(de) ==
    /\ UNCHANGED <<current_disk_, current_track_, current_sector_, dma_addr_>>
    /\ UNCHANGED <<A, HL, cons, disk>>

\* do_bdos, case 26: set DMA address.
bdos_set_dma(de) ==
    /\ dma_addr_' = de
    /\ UNCHANGED <<current_disk_, current_track_, current_sector_>>
    /\ UNCHANGED <<A, HL, cons, disk>>

do_bdos_body ==
    LET func == get_low(BC)
        de == DE
        con == ConsoleManager_get(0)
    IN  /\ CASE func = 0 ->
                UNCHANGED <<A, HL, latched, cons, disk>>
            [] func = 1 ->
                /\ IF con
                   THEN LET ch == Console_read_char_val(0)
                        IN  /\ A' = ch
                            /\ con_in' = Console_read_char_in(0)
                            /\ con_out' = Console_write_char(con_out, 0, ch)
                            /\ con_wrote' = <<WriteCall(0, ch)>>
                   ELSE /\ A' = EOF_CHAR
                        /\ UNCHANGED <<con_in, con_out, con_wrote>>
                /\ UNCHANGED <<HL, latched, registry, disk>>
            [] func = 2 ->
                /\ con_out' = IF con
                              THEN Console_write_char(con_out, 0, de % BYTE_MOD)
                              ELSE con_out
                /\ con_wrote' = IF con THEN <<WriteCall(0, de % BYTE_MOD)>> ELSE <<>>
                /\ UNCHANGED <<A, HL, latched, registry, con_in, disk>>
            [] func = 6 -> bdos_direct_io(de, con)
            [] func = 9 ->
                /\ con_out' = IF con
                              THEN [con_out EXCEPT ![0] = print_string(@, mem, de)]
                              ELSE con_out
                /\ con_wrote' = IF con THEN print_calls(mem, de) ELSE <<>>
                /\ UNCHANGED <<A, HL, latched, registry, con_in, disk>>
            [] func = 11 ->
                /\ A' = IF con /\ Console_const_status(0) # 0 THEN 255 ELSE 0
                /\ UNCHANGED <<HL, latched, cons, disk>>
            [] func = 12 ->
                /\ HL' = 33
                /\ A' = 33
                /\ UNCHANGED <<latched, cons, disk>>
            [] func = 13 ->
                /\ dsk_sel' = DiskSystem_select_sel(0)
                /\ current_disk_' = 0
                /\ UNCHANGED <<current_track_, current_sector_, dma_addr_>>
                /\ UNCHANGED <<dsk_mounted, dsk_track, dsk_sector, dsk_dma, dsk_xfer>>
                /\ UNCHANGED <<A, HL, cons>>
            [] func = 14 -> bdos_select_disk(de)
            [] func = 15 ->
                /\ A' = 255
                /\ UNCHANGED <<HL, latched, cons, disk>>
            [] func = 20 ->
                /\ A' = 1
                /\ UNCHANGED <<HL, latched, cons, disk>>
            [] func = 26 -> bdos_set_dma(de)
            [] OTHER -> bdos_unknown
        /\ UNCHANGED <<IFF1, IFF2, flags, memv>>
        /\ do_ret

\* The emulator runs do_bdos when the guest reaches the loader's BDOS entry.
do_bdos ==
    /\ phase = "trap"
    /\ PC = bdos_stub_
    /\ phase' = "ret"
    /\ d_kind' = "do_bdos"
    /\ d_ret' = TRUE
    /\ d_handler' = "do_bdos"
    /\ UNCHANGED <<d_ldr, d_off>>
    /\ do_bdos_body
    /\ UNCHANGED <<BC, DE, xiosv, ghost, ncalls, qvars, inth>>

(***************************************************************************)
(* The guest.  It runs to a CALL of some address: the registers hold what  *)
(* the guest loaded, the return address is pushed, and the emulator then   *)
(* examines the program counter.  g_trk, g_sec and g_dma remember what the *)
(* guest last asked the tables (or BDOS function 26) to latch.             *)
(***************************************************************************)
NoXfer == [op |-> "none", disk |-> 0, track |-> 0, sector |-> 0, dma |-> 0, result |-> 0]

\* Guest memory before the CALL pushes: "H$" at 0, a memory descriptor
\* at 0 whose bank byte (offset 3) is 1.
GuestImage == (0 :> 72) @@ (1 :> DOLLAR) @@ (3 :> 1)

slot_of(pc, off) == pc = xios_base_ + off \/ pc = ldrbios_base_ + off

GuestCall(calls) ==
    /\ phase = "guest"
    /\ phase' = "trap"
    /\ \E c \in calls :
        LET sp == Word(c.sp + WORD_MOD - 2)
        IN  /\ PC' = c.pc
            /\ BC' = c.bc
            /\ DE' = c.de
            /\ A' = c.a
            /\ HL' = c.hl
            /\ SP' = sp
            /\ mem' = store_mem(store_mem(GuestImage, sp, get_low(c.ret)),
                                Word(sp + 1), get_high(c.ret))
            /\ g_trk' = IF slot_of(c.pc, XIOS_SETTRK) THEN c.bc
                        ELSE IF slot_of(c.pc, XIOS_HOME) THEN 0 ELSE g_trk
            /\ g_sec' = IF slot_of(c.pc, XIOS_SETSEC) THEN c.bc ELSE g_sec
            /\ g_dma' = IF slot_of(c.pc, XIOS_SETDMA) THEN c.bc
                        ELSE IF c.pc = bdos_stub_ /\ get_low(c.bc) = 26 THEN c.de
                        ELSE g_dma
    /\ UNCHANGED <<IFF1, IFF2, bank, xiosv, latched, flags, cons, disk, disp, qvars, inth>>
    /\ UNCHANGED t_seen

\* The CPU resumes: the guest runs on, its registers and its memory become
\* what it makes of them, and the record of the last dispatch is dropped.
GuestResume ==
    /\ phase = "ret"
    /\ phase' = "guest"
    /\ A' = 0 /\ BC' = 0 /\ DE' = 0 /\ HL' = 0 /\ SP' = 0 /\ PC' = 0
    /\ mem' = GuestImage
    /\ d_kind' = "none"
    /\ d_ret' = FALSE
    /\ d_handler' = "none"
    /\ d_ldr' = FALSE
    /\ d_off' = -1
    /\ dsk_xfer' = NoXfer
    /\ UNCHANGED <<dsk_mounted, dsk_sel, dsk_track, dsk_sector, dsk_dma>>
    /\ con_wrote' = <<>>
    /\ UNCHANGED <<registry, con_in, con_out>>
    /\ UNCHANGED <<IFF1, IFF2, bank, xiosv, latched, flags, ghost, ncalls, qvars, inth>>

\* The guest executes DI.
GuestDI ==
    /\ phase = "guest"
    /\ IFF1' = 0
    /\ IFF2' = 0
    /\ UNCHANGED <<A, BC, DE, HL, SP, PC>>
    /\ UNCHANGED <<xiosv, latched, flags, memv, cons, disk, phase, ncalls, disp, ghost,
                   qvars, inth>>

\* A host thread feeds a typed byte to console 0.  Each step of the emulator
\* is atomic here, so it is enough to let the host run between them.
HostInput(chars) ==
    /\ phase = "guest"
    /\ 0 \in registry
    /\ \E ch \in chars : con_in' = [con_in EXCEPT ![0] = try_write_q(@, ch)]
    /\ UNCHANGED <<registry, con_out, con_wrote>>
    /\ UNCHANGED <<xiosv, latched, flags, regs, memv, disk, phase, ncalls, disp, ghost,
                   qvars, inth>>

\* A host thread feeds a typed byte to one of the given consoles.
HostInputTo(consoles, chars) ==
    /\ phase = "guest"
    /\ \E c \in consoles \cap registry, ch \in chars :
          con_in' = [con_in EXCEPT ![c] = try_write_q(@, ch)]
    /\ UNCHANGED <<registry, con_out, con_wrote>>
    /\ UNCHANGED <<xiosv, latched, flags, regs, memv, disk, phase, ncalls, disp, ghost,
                   qvars, inth>>

\* XIOS::tick, called in the timer context at any moment: one atomic load of
\* tick_enabled_, and (so far) nothing done with the value.
tick ==
    /\ t_seen' = IF tick_enabled_ THEN "on" ELSE "off"
    /\ UNCHANGED <<g_trk, g_sec, g_dma>>
    /\ UNCHANGED <<xiosv, latched, flags, regs, memv, cons, disk, phase, ncalls, disp,
                   qvars, inth>>

\* The interrupt logic marks itself in progress, or finished: one atomic
\* store to preempted_, at any moment.
set_preempted(value) ==
    /\ preempted_' = value
    /\ preempted_' # preempted_
    /\ UNCHANGED tick_enabled_
    /\ UNCHANGED <<xiosv, latched, regs, memv, cons, disk, phase, ncalls, disp, ghost,
                   qvars, inth>>

(***************************************************************************)
(* The guest's own XIOS code (bnkxios.asm; resxios.asm has the same        *)
(* routines): the interrupt handler inthnd, one step per instruction       *)
(* group, and the routines that touch its data bytes, run as the CPU runs  *)
(* them.  The registers the handler uses are A, C and E; HL, which it      *)
(* loads with the address of cnt60, is saved and restored like the others  *)
(* but its value inside the handler is not followed.                       *)
(***************************************************************************)
\* flagset equ 133: the XDOS function that sets a flag.
flagset == 133
\* cnt60: db 60, and the value inthnd reloads it with.
CNT60_RELOAD == 60
\* The two flags inthnd sets: #1 on a tick, #2 once a second.
FLAG_TICK == 1
FLAG_SEC == 2
\* The value startclock and inthnd store as "true".
ALL_ONES == 255

\* Register C or E loaded with v (mvi c,v / mvi e,v): the low byte of the pair.
set_low(w, v) == (w \div BYTE_MOD) * BYTE_MOD + v

SavedRegs == [k |-> "regs", a |-> A, bc |-> BC, de |-> DE, hl |-> HL]
ReturnTo(label) == [k |-> "ret", to |-> label]
Top(stk) == stk[Len(stk)]
Pop(stk) == SubSeq(stk, 1, Len(stk) - 1)

\* What the handler and the routines below leave alone.
ih_rest ==
    UNCHANGED <<xiosv, latched, flags, SP, PC, memv, cons, disk, phase, ncalls, disp,
                ghost, qvars>>

\* Variant: exit-region enables interrupts whatever preemp holds.
exitregion_unconditional ==
    /\ A' = preemp
    /\ IFF1' = 1 /\ IFF2' = 1

\* exitregion: lda preemp / ora a / rnz / ei / ret.
exitregion ==
    /\ A' = preemp
    /\ IF preemp # 0 THEN UNCHANGED <<IFF1, IFF2>> ELSE IFF1' = 1 /\ IFF2' = 1

\* The CPU accepts a maskable interrupt: both flip-flops are reset, the
\* program counter is pushed and RST 7 leads to inthnd.  EI takes effect
\* only after the instruction that follows it, so none is accepted between
\* the handler's EI and its JMP.
interrupt(max) ==
    /\ IFF1 = 1 /\ ih_pc # "jmp"
    /\ ih_n < max
    /\ IFF1' = 0 /\ IFF2' = 0
    /\ ih_stk' = Append(ih_stk, ReturnTo(ih_pc))
    /\ ih_pc' = "inthnd"
    /\ ih_n' = ih_n + 1
    /\ ih_flags' = <<>>
    /\ UNCHANGED <<A, BC, DE, HL, tickn, cnt60, preemp>>
    /\ ih_rest

\* inthnd: push psw / push b / push d / push h.
inthnd_save ==
    /\ ih_pc = "inthnd"
    /\ ih_stk' = Append(ih_stk, SavedRegs)
    /\ ih_pc' = "setpre"
    /\ UNCHANGED <<A, BC, DE, HL, IFF1, IFF2, tickn, cnt60, preemp, ih_n, ih_flags>>
    /\ ih_rest

\* mvi a,0ffh / sta preemp.
inthnd_set ==
    /\ ih_pc = "setpre"
    /\ A' = ALL_ONES
    /\ preemp' = ALL_ONES
    /\ ih_pc' = "tick"
    /\ UNCHANGED <<BC, DE, HL, IFF1, IFF2, tickn, cnt60, ih_stk, ih_n, ih_flags>>
    /\ ih_rest

\* mvi c,flagset / mvi e,flag / call xdos, returning to label.
call_flagset(flag, label) ==
    /\ BC' = set_low(BC, flagset)
    /\ DE' = set_low(DE, flag)
    /\ ih_stk' = Append(ih_stk, ReturnTo(label))
    /\ ih_pc' = "xdos"
    /\ ih_flags' = Append(ih_flags, get_low(DE'))

\* lda tickn / ora a / jz notick / (set flag #1).
inthnd_tick ==
    /\ ih_pc = "tick"
    /\ A' = tickn
    /\ IF tickn = 0
       THEN /\ ih_pc' = "notick"
            /\ UNCHANGED <<BC, DE, ih_stk, ih_flags>>
       ELSE call_flagset(FLAG_TICK, "notick")
    /\ UNCHANGED <<HL, IFF1, IFF2, tickn, cnt60, preemp, ih_n>>
    /\ ih_rest

\* XDOS, while it sets the flag, leaves a critical region of its own through
\* the XIOS exit-region routine.
xdos_exitregion ==
    /\ ih_pc = "xdos"
    /\ exitregion
    /\ UNCHANGED <<BC, DE, HL, tickn, cnt60, preemp, ih_pc, ih_stk, ih_n, ih_flags>>
    /\ ih_rest

\* XDOS returns to its caller.
xdos_ret ==
    /\ ih_pc = "xdos"
    /\ Top(ih_stk).k = "ret"
    /\ ih_pc' = Top(ih_stk).to
    /\ ih_stk' = Pop(ih_stk)
    /\ UNCHANGED <<A, BC, DE, HL, IFF1, IFF2, tickn, cnt60, preemp, ih_n, ih_flags>>
    /\ ih_rest

\* Variant: the counter is reloaded one decrement late.
inthnd_count_late ==
    /\ ih_pc = "notick"
    /\ cnt60' = (cnt60 + BYTE_MOD - 1) % BYTE_MOD
    /\ ih_pc' = IF cnt60 # 0 THEN "notsec" ELSE "sec"
    /\ UNCHANGED <<A, BC, DE, HL, IFF1, IFF2, tickn, preemp, ih_stk, ih_n, ih_flags>>
    /\ ih_rest

\* notick: lxi h,cnt60 / dcr m / jnz notsec.
inthnd_count ==
    /\ ih_pc = "notick"
    /\ cnt60' = (cnt60 + BYTE_MOD - 1) % BYTE_MOD
    /\ ih_pc' = IF cnt60' # 0 THEN "notsec" ELSE "sec"
    /\ UNCHANGED <<A, BC, DE, HL, IFF1, IFF2, tickn, preemp, ih_stk, ih_n, ih_flags>>
    /\ ih_rest

\* mvi m,60 / (set flag #2).
inthnd_sec ==
    /\ ih_pc = "sec"
    /\ cnt60' = CNT60_RELOAD
    /\ call_flagset(FLAG_SEC, "notsec")
    /\ UNCHANGED <<A, HL, IFF1, IFF2, tickn, preemp, ih_n>>
    /\ ih_rest

\* notsec: xra a / sta preemp.
inthnd_clear ==
    /\ ih_pc = "notsec"
    /\ A' = 0
    /\ preemp' = 0
    /\ ih_pc' = "pops"
    /\ UNCHANGED <<BC, DE, HL, IFF1, IFF2, tickn, cnt60, ih_stk, ih_n, ih_flags>>
    /\ ih_rest

\* pop h / pop d / pop b / pop psw.
inthnd_restore ==
    /\ ih_pc = "pops"
    /\ Top(ih_stk).k = "regs"
    /\ A' = Top(ih_stk).a
    /\ BC' = Top(ih_stk).bc
    /\ DE' = Top(ih_stk).de
    /\ HL' = Top(ih_stk).hl
    /\ ih_stk' = Pop(ih_stk)
    /\ ih_pc' = "ei"
    /\ UNCHANGED <<IFF1, IFF2, tickn, cnt60, preemp, ih_n, ih_flags>>
    /\ ih_rest

\* ei.
inthnd_ei ==
    /\ ih_pc = "ei"
    /\ IFF1' = 1 /\ IFF2' = 1
    /\ ih_pc' = "jmp"
    /\ UNCHANGED <<A, BC, DE, HL, tickn, cnt60, preemp, ih_stk, ih_n, ih_flags>>
    /\ ih_rest

\* jmp pdisp: the dispatcher takes over, with what the interrupt stacked.
inthnd_dispatch ==
    /\ ih_pc = "jmp"
    /\ ih_pc' = "out"
    /\ ih_stk' = <<>>
    /\ UNCHANGED <<A, BC, DE, HL, IFF1, IFF2, tickn, cnt60, preemp, ih_n, ih_flags>>
    /\ ih_rest

\* The guest, outside the handler, calls the exit-region routine.
guest_exitregion ==
    /\ ih_pc = "out"
    /\ exitregion
    /\ UNCHANGED <<BC, DE, HL, inth>>
    /\ ih_rest

\* startclock: mvi a,0ffh / sta tickn / ret.
startclock ==
    /\ ih_pc = "out"
    /\ A' = ALL_ONES
    /\ tickn' = ALL_ONES
    /\ UNCHANGED <<BC, DE, HL, IFF1, IFF2, cnt60, preemp, ih_pc, ih_stk, ih_n, ih_flags>>
    /\ ih_rest

\* stopclock: xra a / sta tickn / ret.
stopclock ==
    /\ ih_pc = "out"
    /\ A' = 0
    /\ tickn' = 0
    /\ UNCHANGED <<BC, DE, HL, IFF1, IFF2, cnt60, preemp, ih_pc, ih_stk, ih_n, ih_flags>>
    /\ ih_rest

(***************************************************************************)
(* The state after construction: XIOS::XIOS, a reset CPU, empty consoles,  *)
(* and the base the system generation configured.                          *)
(***************************************************************************)
InitFor(bases, mounts, threads) ==
    /\ xios_base_ \in bases
    /\ ldrbios_base_ = DEFAULT_LDRBIOS_BASE
    /\ bdos_stub_ = DEFAULT_BDOS_STUB
    /\ current_disk_ = 0
    /\ current_track_ = 0
    /\ current_sector_ = 0
    /\ dma_addr_ = DEFAULT_DMA
    /\ tick_enabled_ = FALSE
    /\ preempted_ = FALSE
    /\ A = 0 /\ BC = 0 /\ DE = 0 /\ HL = 0 /\ SP = 0
    /\ IFF1 = 0 /\ IFF2 = 0
    /\ mem = GuestImage
    /\ bank = 0
    /\ registry = ConfiguredConsoles
    /\ con_in = [c \in ConfiguredConsoles |-> <<>>]
    /\ con_out = [c \in ConfiguredConsoles |-> <<>>]
    /\ con_wrote = <<>>
    /\ dsk_mounted \in mounts
    /\ dsk_sel = 0
    /\ dsk_track = 0
    /\ dsk_sector = 0
    /\ dsk_dma = 0
    /\ dsk_xfer = NoXfer
    /\ d_kind = "none"
    /\ d_ret = FALSE
    /\ d_handler = "none"
    /\ d_ldr = FALSE
    /\ d_off = -1
    /\ g_trk = 0
    /\ g_sec = 0
    /\ g_dma = DEFAULT_DMA
    /\ t_seen = "none"
    /\ ncalls = 0
    /\ queue_ = <<>>
    /\ q_thr = [t \in threads |-> IdleThread]
    /\ q_last = NoReturn
    /\ h_written = <<>>
    /\ h_read = <<>>
    /\ tickn = 0
    /\ cnt60 = CNT60_RELOAD
    /\ preemp = 0
    /\ ih_pc = "out"
    /\ ih_stk = <<>>
    /\ ih_n = 0
    /\ ih_flags = <<>>

InitWith(bases, mounts) == InitFor(bases, mounts, Threads)

(***************************************************************************)
(* TrapSpec: is_xios_call applied to every 16-bit program counter, for     *)
(* each configured base.                                                   *)
(***************************************************************************)
\* Bases the system generation may configure: the default; one below the
\* loader's table; two whose window overlaps the loader's; one near the
\* top of memory.
XiosBases == {DEFAULT_XIOS_BASE, 4096, 5888, 5889, 65408}

TrapInit ==
    /\ InitWith(XiosBases, {{0}})
    /\ PC \in 0 .. (WORD_MOD - 1)
    /\ phase = "trap"

classify ==
    /\ phase = "trap"
    /\ phase' = "classified"
    /\ d_kind' = "is_xios_call"
    /\ d_ret' = is_xios_call(PC)
    /\ UNCHANGED <<d_handler, d_ldr, d_off>>
    /\ UNCHANGED <<xiosv, latched, flags, regs, memv, cons, disk, ghost, ncalls, qvars, inth>>

TrapNext == classify

TrapSpec == TrapInit /\ [][TrapNext]_vars

(***************************************************************************)
(* Spec: the dispatcher under every table entry, addresses that are no     *)
(* entry, and every BDOS function, for several configured bases.           *)
(***************************************************************************)
\* Where the guest's stack pointer is before the CALL, and the return
\* address the CALL pushes (the pushes wrap around the top of memory).
StackCases == {[sp |-> 256, ret |-> 4660], [sp |-> 1, ret |-> 43981],
               [sp |-> 0, ret |-> 255]}

\* Every slot of both tables, and addresses that are no slot.
ProbePCs ==
    {p \in {xios_base_ + 3 * k : k \in 0 .. 25}
           \cup {ldrbios_base_ + 3 * k : k \in 0 .. 17}
           \cup {xios_base_ + 1, xios_base_ + 255, ldrbios_base_ + 2,
                 ldrbios_base_ + 255, 256, bdos_stub_} : p < WORD_MOD}

BdosFuncs == {0, 1, 2, 3, 6, 9, 11, 12, 13, 14, 15, 20, 26, 255}

TableCalls ==
    {[pc |-> p, bc |-> 0, de |-> 0, a |-> 85, hl |-> 21845,
      sp |-> k.sp, ret |-> k.ret] : p \in ProbePCs, k \in StackCases}

BdosCalls ==
    {[pc |-> bdos_stub_, bc |-> f, de |-> e, a |-> 85, hl |-> 21845,
      sp |-> k.sp, ret |-> k.ret] : f \in BdosFuncs, e \in {0, 767}, k \in StackCases}

\* The sets of disks the engine may hold mounted.
MountSets == {{}, {0}}

Init == InitWith(XiosBases, MountSets) /\ PC = 0 /\ phase = "guest"

\* How many calls a run of Spec follows.
MaxCalls == 2

GuestRuns ==
    /\ ncalls < MaxCalls
    /\ ncalls' = ncalls + 1
    /\ GuestCall(TableCalls \cup BdosCalls)
HostTypes == HostInput({65})

Next ==
    \/ GuestRuns
    \/ handle_call
    \/ do_bdos
    \/ GuestResume
    \/ GuestDI
    \/ HostTypes

Spec == Init /\ [][Next]_vars

(***************************************************************************)
(* DiskSpec: the disk entries of both tables, called in any order with     *)
(* several arguments.                                                      *)
(***************************************************************************)
DiskBases == {DEFAULT_XIOS_BASE, 65408}
DiskMounts == {{0, 1}, {0, 1, 48}}

DiskPCs ==
    {xios_base_ + o : o \in {XIOS_SELDSK, XIOS_SETTRK, XIOS_SETSEC, XIOS_SETDMA,
                             XIOS_READ, XIOS_WRITE}}
    \cup {ldrbios_base_ + o : o \in {XIOS_SETTRK, XIOS_SETSEC, XIOS_SETDMA,
                                     XIOS_READ, XIOS_WRITE}}

DiskCalls ==
    {[pc |-> p, bc |-> b, de |-> 0, a |-> 85, hl |-> 21845,
      sp |-> 256, ret |-> 4660] : p \in DiskPCs, b \in {1, 560}}

DiskInit == InitWith(DiskBases, DiskMounts) /\ PC = 0 /\ phase = "guest"

DiskGuestRuns == GuestCall(DiskCalls) /\ UNCHANGED ncalls

DiskNext ==
    \/ DiskGuestRuns
    \/ handle_call
    \/ GuestResume

DiskSpec == DiskInit /\ [][DiskNext]_vars

(***************************************************************************)
(* DevSpec: the device, clock and region entries of the full table, with   *)
(* the host typing, the timer context ticking and the interrupt logic      *)
(* setting and clearing preempted_ in between.                             *)
(***************************************************************************)
DevPCs ==
    {xios_base_ + o : o \in {XIOS_POLLDEVICE, XIOS_STARTCLOCK, XIOS_STOPCLOCK,
                             XIOS_EXITREGION, XIOS_CONIN}}

\* Device numbers in C: each range's ends, the first number past the last
\* range, the largest, and one with a non-zero B above it (0x0105).
DevArgs == {0, 1, 4, 5, 6, 7, 8, 9, 255, 261}

DevCalls ==
    {[pc |-> p, bc |-> b, de |-> 0, a |-> 85, hl |-> 21845,
      sp |-> 256, ret |-> 4660] : p \in DevPCs, b \in DevArgs}

DevInit == InitWith(DiskBases, {{0}}) /\ PC = 0 /\ phase = "guest"

DevGuestRuns == GuestCall(DevCalls) /\ UNCHANGED ncalls
DevHostTypes == HostInputTo(ConfiguredConsoles, {65})
DevPreempts == \E value \in BOOLEAN : set_preempted(value)

DevNext ==
    \/ DevGuestRuns
    \/ handle_call
    \/ GuestResume
    \/ GuestDI
    \/ DevHostTypes
    \/ tick
    \/ DevPreempts

DevSpec == DevInit /\ [][DevNext]_vars

(***************************************************************************)
(* ConSpec: the console entries of both tables, for consoles that exist    *)
(* and consoles that do not, with the host typing in between.              *)
(***************************************************************************)
ConPCs ==
    {xios_base_ + o : o \in {XIOS_CONST, XIOS_CONIN, XIOS_CONOUT}}
    \cup {ldrbios_base_ + o : o \in {XIOS_CONST, XIOS_CONIN, XIOS_CONOUT}}

\* Console numbers in D: two that init() establishes, the first it does not,
\* and one beyond every console.
ConIndexes == {0, 1, NumConsoles, 200}

\* C holds 'B', under a zero and under a non-zero B.
ConCalls ==
    {[pc |-> p, bc |-> b, de |-> d * BYTE_MOD, a |-> 85, hl |-> 21845,
      sp |-> 256, ret |-> 4660] : p \in ConPCs, b \in {66, 322}, d \in ConIndexes}

ConInit == InitWith(XiosBases, {{0}}) /\ PC = 0 /\ phase = "guest"

ConGuestRuns == GuestCall(ConCalls) /\ UNCHANGED ncalls
ConHostTypes == HostInputTo(ConfiguredConsoles, {65})

ConNext ==
    \/ ConGuestRuns
    \/ handle_call
    \/ GuestResume
    \/ ConHostTypes

ConSpec == ConInit /\ [][ConNext]_vars

(***************************************************************************)
(* BootSpec: the loader's BDOS entry, under every function number it knows *)
(* and some it does not, with the host typing in between.  One configured  *)
(* base puts the full table's window over the loader's BDOS entry.         *)
(***************************************************************************)
BootBases == {DEFAULT_XIOS_BASE, 3328}

\* Function numbers in C: the known ones, unknown ones between and beyond
\* them, and print-string under a non-zero B (0x0109).
BootFuncs == BdosFuncs \cup {7, 265}

\* DE: the text "H$"; its '$'; address 65; 0x02FF, from where 1000 bytes hold
\* no '$' and whose low byte is 0xFF; the last address, from where the
\* text wraps around to address 0.
BootParams == {0, 1, 65, 767, 65535}
\* Print-string is called with each; the other functions with a zero low
\* byte and with 0xFF.
BootArgs(f) == IF f % BYTE_MOD = 9 THEN BootParams ELSE {0, 767}

BootCalls ==
    {[pc |-> bdos_stub_, bc |-> f, de |-> e, a |-> 85, hl |-> 21845,
      sp |-> 256, ret |-> 4660] : <<f, e>> \in {<<g, d>> \in BootFuncs \X BootParams :
                                                   d \in BootArgs(g)}}

BootInit == InitWith(BootBases, {{0}}) /\ PC = 0 /\ phase = "guest"

BootGuestRuns == GuestCall(BootCalls) /\ UNCHANGED ncalls
BootHostTypes == HostInput({72})

BootNext ==
    \/ BootGuestRuns
    \/ handle_call
    \/ do_bdos
    \/ GuestResume
    \/ BootHostTypes

BootSpec == BootInit /\ [][BootNext]_vars

(***************************************************************************)
(* LatchSpec: every entry of both tables and every BDOS function, called   *)
(* in any order with arguments that differ from the values latched: C = 1  *)
(* under B = 2 for the tables, DE = 0x02FF for the BDOS.  Disk 1 is        *)
(* mounted in one configuration and not in the other; the host types in    *)
(* between.                                                                *)
(***************************************************************************)
\* How many calls a run of LatchSpec follows.
MaxLatchCalls == 3

LatchPCs ==
    {xios_base_ + 3 * k : k \in 0 .. 25} \cup {ldrbios_base_ + 3 * k : k \in 0 .. 17}

LatchCalls ==
    {[pc |-> p, bc |-> b, de |-> 0, a |-> 85, hl |-> 21845,
      sp |-> 256, ret |-> 4660] : p \in LatchPCs, b \in {513}}
    \cup {[pc |-> bdos_stub_, bc |-> f, de |-> e, a |-> 85, hl |-> 21845,
           sp |-> 256, ret |-> 4660] : f \in BdosFuncs, e \in {767}}
    \cup {[pc |-> bdos_stub_, bc |-> 14, de |-> 0, a |-> 85, hl |-> 21845,
           sp |-> 256, ret |-> 4660]}

LatchInit == InitWith({DEFAULT_XIOS_BASE}, {{0}, {0, 1}}) /\ PC = 0 /\ phase = "guest"

LatchGuestRuns ==
    /\ ncalls < MaxLatchCalls
    /\ ncalls' = ncalls + 1
    /\ GuestCall(LatchCalls)

LatchHostTypes == HostInput({65})

LatchNext ==
    \/ LatchGuestRuns
    \/ handle_call
    \/ do_bdos
    \/ GuestResume
    \/ LatchHostTypes

LatchSpec == LatchInit /\ [][LatchNext]_vars

(***************************************************************************)
(* QueueSpec: host threads calling one ConsoleQueue in every interleaving. *)
(***************************************************************************)
\* The bytes the threads write, the timeouts they pass (0 waits for ever),
\* the buffers write_some is given and the lengths read_some asks for.
QBytes == {65, 255}
QTimeouts == {0, 50}
QBuffers == {<<>>, <<65>>, <<255, 65, 255>>}
QLengths == {0, 1, 3}

QueueInit ==
    /\ InitWith({DEFAULT_XIOS_BASE}, {{0}})
    /\ PC = 0
    /\ phase = "guest"

q_try_read == \E t \in Threads : try_read(t) /\ UNCHANGED hist
q_read == \E t \in Threads, timeout_ms \in QTimeouts : read(t, timeout_ms) /\ UNCHANGED hist
q_read_wakes == \E t \in Threads : read_wakes(t) /\ UNCHANGED hist
q_try_write == \E t \in Threads, ch \in QBytes : try_write(t, ch) /\ UNCHANGED hist
q_write ==
    \E t \in Threads, ch \in QBytes, timeout_ms \in QTimeouts :
        write(t, ch, timeout_ms) /\ UNCHANGED hist
q_write_wakes == \E t \in Threads : write_wakes(t) /\ UNCHANGED hist
q_write_some == \E t \in Threads, data \in QBuffers : write_some(t, data) /\ UNCHANGED hist
q_read_some == \E t \in Threads, max_len \in QLengths : read_some(t, max_len) /\ UNCHANGED hist
q_clear == \E t \in Threads : clear(t) /\ UNCHANGED hist
q_spurious_wakeup == \E t \in Threads : spurious_wakeup(t) /\ UNCHANGED hist
q_deadline_passes == \E t \in Threads : deadline_passes(t) /\ UNCHANGED hist

QueueNext ==
    \/ q_try_read
    \/ q_read
    \/ q_read_wakes
    \/ q_try_write
    \/ q_write
    \/ q_write_wakes
    \/ q_write_some
    \/ q_read_some
    \/ q_clear
    \/ q_spurious_wakeup
    \/ q_deadline_passes

QueueSpec == QueueInit /\ [][QueueNext]_vars

(***************************************************************************)
(* FifoSpec: QueueSpec with a record of the bytes that went in and came    *)
(* out.  A write is granted when its call returns true (write_some: for    *)
(* the count it returns); clear starts the record afresh.                  *)
(***************************************************************************)
\* How many granted bytes a run follows before the next clear.
MaxHist == 3

\* The call of thread t has returned in this step.
returned(t) == q_thr'[t].st = "idle"
reads_byte(t) ==
    h_read' = IF returned(t) /\ q_last'.val # -1 THEN Append(h_read, q_last'.val)
              ELSE h_read
writes_byte(t, ch) ==
    h_written' = IF returned(t) /\ q_last'.val = 1 THEN Append(h_written, ch)
                 ELSE h_written
room == Len(h_written) < MaxHist

f_try_read == \E t \in Threads : try_read(t) /\ reads_byte(t) /\ UNCHANGED h_written
f_read ==
    \E t \in Threads, timeout_ms \in QTimeouts :
        read(t, timeout_ms) /\ reads_byte(t) /\ UNCHANGED h_written
f_read_wakes == \E t \in Threads : read_wakes(t) /\ reads_byte(t) /\ UNCHANGED h_written
f_try_write ==
    \E t \in Threads, ch \in QBytes :
        room /\ try_write(t, ch) /\ writes_byte(t, ch) /\ UNCHANGED h_read
f_write ==
    \E t \in Threads, ch \in QBytes, timeout_ms \in QTimeouts :
        room /\ write(t, ch, timeout_ms) /\ writes_byte(t, ch) /\ UNCHANGED h_read
f_write_wakes ==
    \E t \in Threads :
        room /\ write_wakes(t) /\ writes_byte(t, q_thr[t].ch) /\ UNCHANGED h_read
f_write_some ==
    \E t \in Threads, data \in QBuffers :
        /\ room
        /\ write_some(t, data)
        /\ h_written' = h_written \o SubSeq(data, 1, q_last'.val)
        /\ UNCHANGED h_read
f_read_some ==
    \E t \in Threads, max_len \in QLengths :
        /\ read_some(t, max_len)
        /\ h_read' = h_read \o q_last'.data
        /\ UNCHANGED h_written
f_clear == \E t \in Threads : clear(t) /\ h_written' = <<>> /\ h_read' = <<>>

FifoNext ==
    \/ f_try_read
    \/ f_read
    \/ f_read_wakes
    \/ f_try_write
    \/ f_write
    \/ f_write_wakes
    \/ f_write_some
    \/ f_read_some
    \/ f_clear
    \/ q_spurious_wakeup
    \/ q_deadline_passes

FifoSpec == QueueInit /\ [][FifoNext]_vars

(***************************************************************************)
(* WakeSpec: one thread more than in QueueSpec, every wait without a       *)
(* deadline and no spurious wakeup: a blocked thread runs again only when  *)
(* a notify reaches it.                                                    *)
(***************************************************************************)
WakeThreads == 1 .. (QThreads + 1)

WakeInit ==
    /\ InitFor({DEFAULT_XIOS_BASE}, {{0}}, WakeThreads)
    /\ PC = 0
    /\ phase = "guest"

w_try_read == \E t \in WakeThreads : try_read(t) /\ UNCHANGED hist
w_read == \E t \in WakeThreads : read(t, 0) /\ UNCHANGED hist
w_read_wakes == \E t \in WakeThreads : read_wakes(t) /\ UNCHANGED hist
w_try_write == \E t \in WakeThreads, ch \in QBytes : try_write(t, ch) /\ UNCHANGED hist
w_write == \E t \in WakeThreads, ch \in QBytes : write(t, ch, 0) /\ UNCHANGED hist
w_write_wakes == \E t \in WakeThreads : write_wakes(t) /\ UNCHANGED hist
w_write_some ==
    \E t \in WakeThreads, data \in QBuffers : write_some(t, data) /\ UNCHANGED hist
w_read_some ==
    \E t \in WakeThreads, max_len \in QLengths : read_some(t, max_len) /\ UNCHANGED hist
w_clear == \E t \in WakeThreads : clear(t) /\ UNCHANGED hist

WakeNext ==
    \/ w_try_read
    \/ w_read
    \/ w_read_wakes
    \/ w_try_write
    \/ w_write
    \/ w_write_wakes
    \/ w_write_some
    \/ w_read_some
    \/ w_clear

WakeSpec == WakeInit /\ [][WakeNext]_vars

(***************************************************************************)
(* TimeoutSpec: readers on a queue nothing is written to.  The clock runs  *)
(* on, so a deadline that can pass does pass, and a thread that wants      *)
(* mtx_ gets it in the end.                                                *)
(***************************************************************************)
TimeoutNext ==
    \/ q_try_read
    \/ q_read
    \/ q_read_wakes
    \/ q_read_some
    \/ q_clear
    \/ q_spurious_wakeup
    \/ q_deadline_passes

TimeoutFair ==
    \A t \in Threads :
        /\ WF_vars(deadline_passes(t) /\ UNCHANGED hist)
        /\ WF_vars(read_wakes(t) /\ UNCHANGED hist)

TimeoutSpec == QueueInit /\ [][TimeoutNext]_vars /\ TimeoutFair

(***************************************************************************)
(* FullSpec: writers with a deadline on a queue that other calls fill and  *)
(* a reader empties one byte at a time.  As in TimeoutSpec the clock runs  *)
(* on and a thread that wants mtx_ gets it in the end.                     *)
(***************************************************************************)
\* The timeout the writers pass, and the byte the non-blocking calls write.
FullTimeout == 50
FullFiller == 65

full_try_write == \E t \in Threads : try_write(t, FullFiller) /\ UNCHANGED hist
full_write ==
    \E t \in Threads, ch \in QBytes : write(t, ch, FullTimeout) /\ UNCHANGED hist

FullNext ==
    \/ full_try_write
    \/ full_write
    \/ q_write_wakes
    \/ q_try_read
    \/ q_spurious_wakeup
    \/ q_deadline_passes

FullFair ==
    \A t \in Threads :
        /\ WF_vars(deadline_passes(t) /\ UNCHANGED hist)
        /\ WF_vars(write_wakes(t) /\ UNCHANGED hist)

FullSpec == QueueInit /\ [][FullNext]_vars /\ FullFair

(***************************************************************************)
(* IntSpec: the guest takes timer interrupts, and between them enters and  *)
(* leaves critical regions and starts and stops the clock.                 *)
(***************************************************************************)
\* How many interrupts a run follows: two seconds' worth and one more.
MaxInterrupts == 121

IntInit ==
    /\ InitWith({DEFAULT_XIOS_BASE}, {{0}})
    /\ PC = 0
    /\ phase = "guest"

IntInterrupt == interrupt(MaxInterrupts)
\* The guest enters a critical region.
IntGuestDI == ih_pc = "out" /\ GuestDI

IntNext ==
    \/ IntInterrupt
    \/ inthnd_save
    \/ inthnd_set
    \/ inthnd_tick
    \/ xdos_exitregion
    \/ xdos_ret
    \/ inthnd_count
    \/ inthnd_sec
    \/ inthnd_clear
    \/ inthnd_restore
    \/ inthnd_ei
    \/ inthnd_dispatch
    \/ guest_exitregion
    \/ startclock
    \/ stopclock
    \/ IntGuestDI

IntSpec == IntInit /\ [][IntNext]_vars

(***************************************************************************)
(* EntrySpec: handle_call applied to every 16-bit program counter, with    *)
(* the default bases.                                                      *)
(***************************************************************************)
EntryInit ==
    /\ InitWith({DEFAULT_XIOS_BASE}, {{0}})
    /\ PC \in 0 .. (WORD_MOD - 1)
    /\ phase = "trap"

EntryNext == handle_call

EntrySpec == EntryInit /\ [][EntryNext]_vars

(***************************************************************************)
(* Claims about the trap dispatcher.                                       *)
(***************************************************************************)
\* The two windows and the valid offsets, as the claims state them.
InXiosWindow(pc) == xios_base_ <= pc /\ pc < xios_base_ + 256
InLdrWindow(pc) == ldrbios_base_ <= pc /\ pc < ldrbios_base_ + 256
XiosEntry(pc) == InXiosWindow(pc) /\ pc - xios_base_ <= 72 /\ (pc - xios_base_) % 3 = 0
LdrEntry(pc) == InLdrWindow(pc) /\ pc - ldrbios_base_ <= 48 /\ (pc - ldrbios_base_) % 3 = 0

\* The memory word the synthetic return pops at stack pointer sp.
Popped(m, sp) == fetch_mem(m, sp) + 256 * fetch_mem(m, (sp + 1) % 65536)
\* A step of handle_call, and a step of do_bdos.
HandleStep == phase = "trap" /\ phase' = "ret" /\ d_kind' = "handle_call"
BdosStep == phase = "trap" /\ phase' = "ret" /\ d_kind' = "do_bdos"
\* The synthetic return happened, once.
Returned == SP' = (SP + 2) % 65536 /\ PC' = Popped(mem', SP)

\* C1: for every 16-bit pc, is_xios_call(pc) is true iff pc is a valid entry of the full
\* table's window or a valid entry of the bootstrap table's window.
C1_AsStated ==
    d_kind = "is_xios_call" => (d_ret <=> (XiosEntry(PC) \/ LdrEntry(PC)))

\* The handler the table entry at offset off stands for.
HandlerOf(off) ==
    CASE off = 0 -> "do_boot" [] off = 3 -> "do_wboot" [] off = 6 -> "do_const"
      [] off = 9 -> "do_conin" [] off = 12 -> "do_conout" [] off = 15 -> "do_list"
      [] off = 18 -> "do_punch" [] off = 21 -> "do_reader" [] off = 24 -> "do_home"
      [] off = 27 -> "do_seldsk" [] off = 30 -> "do_settrk" [] off = 33 -> "do_setsec"
      [] off = 36 -> "do_setdma" [] off = 39 -> "do_read" [] off = 42 -> "do_write"
      [] off = 45 -> "do_listst" [] off = 48 -> "do_sectran"
      [] off = 51 -> "do_selmemory" [] off = 54 -> "do_polldevice"
      [] off = 57 -> "do_startclock" [] off = 60 -> "do_stopclock"
      [] off = 63 -> "do_exitregion" [] off = 66 -> "do_maxconsole"
      [] off = 69 -> "do_systeminit" [] off = 72 -> "do_idle"
      [] OTHER -> "none"

\* C2: for every configured base and every pc that is_xios_call accepts,
\* handle_call works in the table whose window is_xios_call matched, with the
\* offset relative to that table's base, and runs that slot's handler (the
\* bootstrap table's select-disk slot runs none).
C2_SameTable ==
    [][(HandleStep /\ is_xios_call(PC)) =>
          LET ldr == ~InXiosWindow(PC)
              off == IF ldr THEN PC - ldrbios_base_ ELSE PC - xios_base_
          IN  /\ d_ldr' = ldr
              /\ d_off' = off
              /\ d_handler' = IF ldr /\ off = 27 THEN "none" ELSE HandlerOf(off)]_vars

\* C3: every call handle_call answers with true, and every do_bdos call,
\* pops the return address exactly once: SP advances by 2 (mod 65536) and PC
\* becomes the little-endian word at the old SP.
C3_SyntheticReturn ==
    [][((HandleStep /\ d_ret') \/ BdosStep) => Returned]_vars

\* C3 witness: a rejected select-disk has returned through a stack that wraps
\* around the top of memory.
C3_Witness ==
    /\ phase = "ret" /\ d_handler = "do_seldsk" /\ d_ret
    /\ dsk_mounted = {} /\ HL = 0
    /\ SP = 1 /\ PC = 43981

\* C4: when is_xios_call(pc) is false, handle_call returns false and changes
\* nothing: registers, flip-flops, latched values, flags, consoles, disk
\* engine and memory are as before.
C4_NotACall ==
    [][(HandleStep /\ ~is_xios_call(PC)) =>
          /\ d_ret' = FALSE
          /\ UNCHANGED <<regs, latched, flags, cons, disk, memv>>]_vars

\* C4 witness: handle_call has declined an address inside the bootstrap
\* window that lies beyond the table's last slot.
C4_Witness ==
    /\ phase = "ret" /\ d_kind = "handle_call" /\ ~d_ret
    /\ PC = ldrbios_base_ + 51 /\ ~InXiosWindow(PC)

SeldskStep == HandleStep /\ PC = xios_base_ + 27
\* The disk number the guest passes in register C.
RegC == BC % 256

\* C6: after any sequence of set-track, set-sector and set-dma calls, in any
\* order and with repeats, a read or write presents to the disk engine the
\* track, sector and DMA address the guest passed last for each field.
C6_LastLatched ==
    (phase = "ret" /\ d_handler \in {"do_read", "do_write"}) =>
        /\ dsk_xfer.track = g_trk
        /\ dsk_xfer.sector = g_sec
        /\ dsk_xfer.dma = g_dma

\* C6 witness: a read has presented three values that differ from the
\* constructor's and from each other in at least one field.
C6_Witness ==
    /\ phase = "ret" /\ d_handler = "do_read"
    /\ dsk_xfer.track = 560 /\ dsk_xfer.sector = 1 /\ dsk_xfer.dma = 560

\* C7: a full-table select-disk the engine rejects returns HL = 0, leaves
\* current_disk as it was, pops the return address, and handle_call
\* returns true.
C7_Rejected ==
    [][(SeldskStep /\ RegC \notin dsk_mounted) =>
          /\ HL' = 0
          /\ current_disk_' = current_disk_
          /\ d_ret' = TRUE
          /\ Returned]_vars

\* C7 witness: drive 48 has been rejected while drive 1 was current.
C7_Witness ==
    /\ phase = "ret" /\ d_handler = "do_seldsk" /\ d_ret
    /\ BC % 256 = 48 /\ 48 \notin dsk_mounted
    /\ current_disk_ = 1 /\ HL = 0 /\ PC = 4660

\* C8 as stated: an accepted select-disk N sets current_disk = N and returns
\* HL equal to xios_base + 0x100 + 16*N, with no wrap.
C8_AsStated ==
    [][(SeldskStep /\ RegC \in dsk_mounted) =>
          /\ current_disk_' = RegC
          /\ HL' = xios_base_ + 256 + 16 * RegC]_vars

\* C8 amended: an accepted select-disk N sets current_disk = N and returns
\* HL equal to (xios_base + 0x100 + 16*N) mod 65536, which is the exact
\* address whenever that sum fits in 16 bits.
C8_Accepted ==
    [][(SeldskStep /\ RegC \in dsk_mounted) =>
          /\ current_disk_' = RegC
          /\ HL' = (xios_base_ + 256 + 16 * RegC) % 65536]_vars

\* C8 witness: with the default base, drive 48 has been accepted and the
\* address returned has wrapped to 0.
C8_Witness ==
    /\ phase = "ret" /\ d_handler = "do_seldsk"
    /\ xios_base_ = 64512 /\ current_disk_ = 48 /\ BC % 256 = 48
    /\ HL = 0

\* C9: read and write return in A the status the engine's transfer
\* returned, whatever it is; the call pops the return address and
\* handle_call returns true also when the engine reports an error.
C9_StatusVerbatim ==
    [][(HandleStep /\ d_handler' \in {"do_read", "do_write"}) =>
          /\ dsk_xfer'.op = (IF d_handler' = "do_read" THEN "read" ELSE "write")
          /\ A' = dsk_xfer'.result
          /\ d_ret' = TRUE
          /\ Returned]_vars

\* C9 witness: a write the engine failed with status 255 has returned 255.
C9_Witness ==
    /\ phase = "ret" /\ d_handler = "do_write" /\ d_ret
    /\ dsk_xfer.result = 255 /\ A = 255 /\ PC = 4660

(***************************************************************************)
(* Claims about the console queue.                                         *)
(***************************************************************************)
\* C10: in every reachable state of a queue shared by threads that call
\* try_read, read, try_write, write, read_some, write_some and clear in any
\* interleaving, available() + space() = CAPACITY and
\* 0 <= available() <= CAPACITY.
C10_Capacity ==
    /\ available(queue_) + space(queue_) = CAPACITY
    /\ 0 <= available(queue_)
    /\ available(queue_) <= CAPACITY

\* C10 witness: the queue is full, a writer is blocked on it, and the call
\* that returned last is a write_some that could place only part of its
\* buffer.
C10_Witness ==
    /\ available(queue_) = CAPACITY /\ space(queue_) = 0
    /\ \E t \in Threads : q_thr[t].st = "blocked" /\ q_thr[t].op = "write"
    /\ q_last.op = "write_some" /\ q_last.val > 0 /\ q_last.val < 3

\* s is an initial segment of w.
IsPrefix(s, w) == Len(s) <= Len(w) /\ SubSeq(w, 1, Len(s)) = s

\* C11: the queue is FIFO: the bytes successful reads (try_read, read,
\* read_some) have returned since the last clear are, in order and value,
\* an initial segment of the bytes successful writes (try_write, write,
\* write_some) were granted since then.
C11_Fifo == IsPrefix(h_read, h_written)

\* C11 witness: three bytes went in, by more than one kind of write, and the
\* first two have come out in the order they went in.
C11_Witness ==
    /\ h_written = <<255, 65, 65>>
    /\ h_read = <<255, 65>>
    /\ q_last.op = "read" /\ q_last.waited

\* C12: try_write on a queue holding CAPACITY bytes returns false at once,
\* without waiting on not_full_, and leaves the contents and their order
\* as they were.
C12_TryWriteFull ==
    [][\A t \in Threads, ch \in QBytes :
          (try_write(t, ch) /\ Len(queue_) = CAPACITY) =>
              /\ q_thr'[t].st = "idle"
              /\ q_last'.thread = t /\ q_last'.op = "try_write" /\ q_last'.val = 0
              /\ queue_' = queue_]_vars

\* C12 witness: a try_write has been refused on a full queue holding two
\* different bytes.
C12_Witness ==
    /\ q_last.op = "try_write" /\ q_last.val = 0
    /\ queue_ = <<65, 255>>

\* C13: try_read on an empty queue returns -1 at once, without waiting on
\* not_empty_, and leaves the queue empty; on a non-empty queue it returns
\* the oldest byte as a value in 0..255, never -1, and removes that byte
\* and no other.
C13_TryRead ==
    [][\A t \in Threads :
          try_read(t) =>
              /\ q_thr'[t].st = "idle"
              /\ q_last'.thread = t /\ q_last'.op = "try_read"
              /\ IF Len(queue_) = 0
                 THEN q_last'.val = -1 /\ queue_' = <<>>
                 ELSE /\ q_last'.val = queue_[1]
                      /\ q_last'.val \in 0 .. 255
                      /\ queue_' = SubSeq(queue_, 2, Len(queue_))]_vars

\* C13 witness: try_read has returned the byte 255 from a queue that held
\* another byte behind it.
C13_Witness ==
    /\ q_last.op = "try_read" /\ q_last.val = 255
    /\ queue_ = <<65>>

\* C14: every mutation wakes every blocked thread that can now proceed:
\* when every call that is running has completed (no thread is on its way
\* out of a wait), no thread is left waiting in read while the queue is
\* non-empty, nor waiting in write while the queue is not full.
C14_NoLostWakeup ==
    (\A t \in DOMAIN q_thr : q_thr[t].st # "woken") =>
        \A t \in DOMAIN q_thr :
            q_thr[t].st = "blocked" =>
                IF q_thr[t].op = "read"
                THEN Len(queue_) = 0
                ELSE Len(queue_) >= CAPACITY

\* A read of thread t is inside its wait, with a deadline.
TimedReadWaiting(t) ==
    q_thr[t].st # "idle" /\ q_thr[t].op = "read" /\ q_thr[t].timed
\* The read of thread t has just returned the timeout sentinel.
TimedOut(t) ==
    /\ q_thr[t].st = "idle"
    /\ q_last = [thread |-> t, op |-> "read", val |-> -1, data |-> <<>>,
                 waited |-> TRUE, timed |-> TRUE]

\* C15: a read with a nonzero timeout on a queue that stays empty returns
\* the sentinel -1 in the end, once its deadline has passed, and the queue
\* is as it was (empty).
C15_TimedReadReturns ==
    \A t \in Threads : TimedReadWaiting(t) ~> (TimedOut(t) /\ queue_ = <<>>)

\* C15 witness: thread 1 has come back from a timed wait with -1 while
\* thread 2 still waits without a deadline.
C15_Witness ==
    /\ TimedOut(1) /\ queue_ = <<>>
    /\ q_thr[2].st = "blocked" /\ ~q_thr[2].timed

\* C16: a zero timeout waits for as long as it takes: read(0) never
\* returns -1 and returns only from a non-empty queue, with the byte at
\* its head, which it removes; write(ch, 0) never returns false and
\* returns only from a queue with room, having appended ch.
C16_ZeroTimeout ==
    [][\A t \in Threads :
          /\ ((read(t, 0) \/ (read_wakes(t) /\ ~q_thr[t].timed))
                 /\ q_thr'[t].st = "idle") =>
                /\ Len(queue_) > 0
                /\ q_last'.thread = t /\ q_last'.op = "read"
                /\ q_last'.val = queue_[1] /\ q_last'.val # -1
                /\ queue_' = SubSeq(queue_, 2, Len(queue_))
          /\ \A ch \in QBytes :
                ((write(t, ch, 0)
                     \/ (write_wakes(t) /\ ~q_thr[t].timed /\ q_thr[t].ch = ch))
                   /\ q_thr'[t].st = "idle") =>
                  /\ Len(queue_) < CAPACITY
                  /\ q_last'.thread = t /\ q_last'.op = "write"
                  /\ q_last'.val = 1
                  /\ queue_' = queue_ \o <<ch>>]_vars

\* C16 witness: a write without deadline that had to wait has returned true,
\* its byte 255 now last in the full queue.
C16_Witness ==
    /\ q_last.op = "write" /\ q_last.waited /\ ~q_last.timed /\ q_last.val = 1
    /\ Len(queue_) = CAPACITY /\ queue_[CAPACITY] = 255
    /\ q_thr[q_last.thread].st = "idle"

\* The smaller of two numbers.
Min(a, b) == IF a < b THEN a ELSE b

\* C17: write_some(data, len) never blocks, appends the first
\* min(len, space()) bytes of data in order and returns that count;
\* read_some(buf, max_len) never blocks, removes the oldest
\* min(max_len, available()) bytes, hands them out in order and returns
\* that count.
C17_Some ==
    [][\A t \in Threads :
          /\ \A data \in QBuffers :
                write_some(t, data) =>
                    LET n == Min(Len(data), space(queue_))
                    IN  /\ q_thr'[t].st = "idle"
                        /\ q_last'.thread = t /\ q_last'.op = "write_some"
                        /\ q_last'.val = n
                        /\ queue_' = queue_ \o [i \in 1 .. n |-> data[i]]
          /\ \A max_len \in QLengths :
                read_some(t, max_len) =>
                    LET n == Min(max_len, available(queue_))
                    IN  /\ q_thr'[t].st = "idle"
                        /\ q_last'.thread = t /\ q_last'.op = "read_some"
                        /\ q_last'.val = n
                        /\ q_last'.data = [i \in 1 .. n |-> queue_[i]]
                        /\ queue_' = [i \in 1 .. (Len(queue_) - n) |-> queue_[i + n]]]_vars

\* C17 witness: read_some asked for one byte of two and got the older one;
\* the newer one is still queued.
C17_Witness ==
    /\ q_last.op = "read_some" /\ q_last.val = 1 /\ q_last.data = <<255>>
    /\ queue_ = <<65>>

\* A step in which handle_call ran the handler h.
RanStep(h) == HandleStep /\ d_handler' = h

\* C18: exit-region sets IFF1 and IFF2 to 1 iff preempted is false when it
\* is called; when preempted is true both flip-flops keep their values.
C18_ExitRegion ==
    [][RanStep("do_exitregion") =>
          IF ~preempted_
          THEN IFF1' = 1 /\ IFF2' = 1
          ELSE UNCHANGED <<IFF1, IFF2>>]_vars

\* C18 witness: exit-region has returned with interrupts still disabled,
\* which it does only when it was called while preempted.
C18_Witness ==
    /\ phase = "ret" /\ d_handler = "do_exitregion"
    /\ preempted_ /\ IFF1 = 0 /\ IFF2 = 0

\* C19: start-clock leaves tick_enabled true and stop-clock leaves it false,
\* whatever it was, and nothing else changes it, so it always holds the
\* value of the last completed store; it is always true or false; a tick
\* loads exactly that value and changes nothing else; the timer context can
\* always tick and a trapped call can always be dispatched, so neither
\* context waits on the other.
C19_ClockFlag ==
    /\ [](tick_enabled_ \in BOOLEAN)
    /\ [][/\ RanStep("do_startclock") => tick_enabled_'
          /\ RanStep("do_stopclock") => ~tick_enabled_'
          /\ (tick_enabled_' # tick_enabled_) =>
                (RanStep("do_startclock") \/ RanStep("do_stopclock"))
          /\ (t_seen' # t_seen) =>
                /\ t_seen' = (IF tick_enabled_ THEN "on" ELSE "off")
                /\ UNCHANGED <<flags, regs, phase, disp>>]_vars
    /\ [](ENABLED tick)
    /\ [](phase = "trap" => ENABLED handle_call)

\* C19 witness: a tick saw the clock started, and stop-clock has since
\* returned leaving the flag false.
C19_Witness ==
    /\ phase = "ret" /\ d_handler = "do_stopclock"
    /\ ~tick_enabled_ /\ t_seen = "on"

\* C20: poll-device returns 0xFF in A for device 0 and devices 1..4; for
\* devices 5..8, 0xFF iff console (device - 5) exists and has input queued,
\* else 0; 0 for devices 9..255; and it leaves every console's queues as
\* they were.
C20_PollDevice ==
    [][RanStep("do_polldevice") =>
          LET index == BC % BYTE_MOD
          IN  /\ A' = IF index <= 4 THEN 255
                      ELSE IF index <= 8
                      THEN IF (index - 5) \in registry /\ con_in[index - 5] # <<>>
                           THEN 255 ELSE 0
                      ELSE 0
              /\ UNCHANGED cons]_vars

\* C20 witness: device 5 was polled, with a non-zero B above it, while
\* console 0 had input; the answer is 0xFF and the input is still there.
C20_Witness ==
    /\ phase = "ret" /\ d_handler = "do_polldevice"
    /\ BC = 261 /\ A = 255 /\ con_in[0] # <<>>

\* The console number in D, and the low byte of C and of E.
RegD == DE \div BYTE_MOD
RegE == DE % BYTE_MOD
\* The function number of a do_bdos call.
Func == BC % BYTE_MOD
\* Console c exists and has no input queued.
NoInput(c) == c \in registry /\ con_in[c] = <<>>

\* C21: no handler blocks: whatever the consoles hold (no input, a full
\* output queue), a trapped address is dispatched in one step, by
\* handle_call and, at the loader's BDOS entry, by do_bdos; console status
\* on an empty input answers not ready and console input answers the EOF
\* sentinel (function 6 answers 0) at once, taking nothing from the queue.
C21_NeverBlocks ==
    /\ [](phase = "trap" => ENABLED handle_call)
    /\ []((phase = "trap" /\ PC = bdos_stub_) => ENABLED do_bdos)
    /\ [][/\ (RanStep("do_const") /\ NoInput(RegD)) => (A' = 0 /\ UNCHANGED cons)
          /\ (RanStep("do_conin") /\ NoInput(RegD)) => (A' = EOF_CHAR /\ UNCHANGED cons)
          /\ (BdosStep /\ Func = 11 /\ NoInput(0)) => (A' = 0 /\ UNCHANGED cons)
          /\ (BdosStep /\ Func = 6 /\ RegE = 255 /\ NoInput(0)) =>
                (A' = 0 /\ UNCHANGED cons)
          /\ (BdosStep /\ Func = 1 /\ NoInput(0)) =>
                (A' = EOF_CHAR /\ con_in' = con_in)]_vars

\* C21 witness: console input has returned the EOF sentinel from a console
\* with no input typed and a full output queue.
C21_Witness ==
    /\ phase = "ret" /\ d_handler = "do_conin" /\ A = EOF_CHAR
    /\ con_in[0] = <<>> /\ Len(con_out[0]) = CAPACITY

\* What C22 says of console status and console input: for a console number
\* in D that the registry does not hold, A = 0 and A = 0x1A, the synthetic
\* return is made, handle_call answers true and no console changes.
AbsentStatusInput ==
    /\ (RanStep("do_const") /\ RegD \notin registry) =>
          (A' = 0 /\ Returned /\ d_ret' /\ UNCHANGED cons)
    /\ (RanStep("do_conin") /\ RegD \notin registry) =>
          (A' = EOF_CHAR /\ Returned /\ d_ret' /\ UNCHANGED cons)
\* Console output wrote nothing, returned, and handle_call answered true.
WroteNothing == con_wrote' = <<>> /\ Returned /\ d_ret' /\ UNCHANGED cons

\* C22 as stated: whenever the console number in D has no console, console
\* status returns 0, console input returns 0x1A and console output writes
\* nothing; each returns, handle_call answers true, no console changes.
C22_AsStated ==
    [][/\ AbsentStatusInput
       /\ (RanStep("do_conout") /\ RegD \notin registry) => WroteNothing]_vars

\* C22, amended: the same, console output being the full table's (the
\* bootstrap table's does not look at D).
C22_Absent ==
    [][/\ AbsentStatusInput
       /\ (RanStep("do_conout") /\ PC >= xios_base_ /\ RegD \notin registry) =>
             WroteNothing]_vars

\* C22 witness: the full table's console output has returned for console
\* 200, which does not exist, while console 0 holds output written before;
\* nothing was written.
C22_Witness ==
    /\ phase = "ret" /\ d_handler = "do_conout" /\ d_ret
    /\ RegD = 200 /\ d_off = XIOS_CONOUT /\ ~d_ldr
    /\ con_wrote = <<>> /\ con_out[0] # <<>>

\* Console c's output queue after write_char(ch): the byte is queued if
\* the queue has room; no other queue, and no input, changes.
OnlyWrote(c, ch) ==
    /\ con_wrote' = <<WriteCall(c, ch)>>
    /\ con_out'[c] = IF Len(con_out[c]) < CAPACITY
                     THEN Append(con_out[c], ch) ELSE con_out[c]
    /\ \A o \in registry \ {c} : con_out'[o] = con_out[o]
    /\ UNCHANGED <<registry, con_in>>

\* C23: console output trapped below xios_base writes the character in C
\* to console 0 whatever D holds; trapped at or above xios_base it writes the
\* character to the console whose number is in D and to no other.
C23_ConoutTarget ==
    [][RanStep("do_conout") =>
          LET target == IF PC < xios_base_ THEN 0 ELSE RegD
          IN  target \in registry => OnlyWrote(target, BC % BYTE_MOD)]_vars

\* C23 witness: the bootstrap table's console output, called with D = 1 and
\* a non-zero B, has written 'B' to console 0 and left console 1 empty.
C23_Witness ==
    /\ phase = "ret" /\ d_handler = "do_conout" /\ d_ldr
    /\ RegD = 1 /\ BC = 322
    /\ con_wrote = <<WriteCall(0, 66)>> /\ con_out[1] = <<>>

\* The guest-memory byte i places after DE (addresses wrap at 16 bits).
TextAt(i) == fetch_mem(mem, (DE + i) % 65536)

\* C24: print-string writes to console 0, in order, the bytes from DE up to
\* but not including the first '$'; it writes at most 1000 and stops short
\* of 1000 only at a '$'; then it returns.  The queue keeps the bytes it
\* has room for, and nothing else changes in any console.
C24_PrintString ==
    [][(BdosStep /\ Func = 9) =>
          LET n == Len(con_wrote')
          IN  /\ n <= 1000
              /\ \A i \in 1 .. n :
                    con_wrote'[i] = WriteCall(0, TextAt(i - 1)) /\ TextAt(i - 1) # 36
              /\ n < 1000 => TextAt(n) = 36
              /\ \E k \in 0 .. CAPACITY :
                    /\ k <= n
                    /\ k = n \/ Len(con_out[0]) + k = CAPACITY
                    /\ con_out'[0] = con_out[0] \o [i \in 1 .. k |-> TextAt(i - 1)]
              /\ \A o \in registry \ {0} : con_out'[o] = con_out[o]
              /\ UNCHANGED <<registry, con_in>>
              /\ Returned]_vars

\* C24 witness: print-string has returned after 1000 bytes that hold no '$'.
C24_Witness ==
    /\ phase = "ret" /\ d_kind = "do_bdos" /\ Func = 9
    /\ DE = 767 /\ Len(con_wrote) = 1000

\* The function numbers do_bdos knows.
KnownFuncs == {0, 1, 2, 6, 9, 11, 12, 13, 14, 15, 20, 26}

\* C25: a do_bdos call with an unknown function number changes SP and PC
\* only, by the synthetic return: A, HL, the latched values, the consoles
\* and the disk engine are as before (and so are the other registers, the
\* flags and memory).
C25_UnknownFunc ==
    [][(BdosStep /\ Func \notin KnownFuncs) =>
          /\ UNCHANGED <<A, HL, BC, DE, IFF1, IFF2>>
          /\ UNCHANGED <<latched, cons, disk, flags, memv>>
          /\ Returned]_vars

\* C25 witness: function 255 has returned after the guest had moved the DMA
\* address and selected disk 15 and while console 0 holds output; all is
\* as it was.
C25_Witness ==
    /\ phase = "ret" /\ d_kind = "do_bdos" /\ Func = 255
    /\ A = 85 /\ HL = 21845
    /\ dma_addr_ = 767 /\ current_disk_ = 15 /\ con_out[0] # <<>>

\* C26: function 6 with E = 0xFF returns in A the next input byte of
\* console 0 if there is one and 0 otherwise, at once, and writes nothing;
\* with any other E it writes the byte E to console 0 and reads nothing.
C26_DirectIO ==
    [][(BdosStep /\ Func = 6) =>
          IF RegE = 255
          THEN /\ A' = IF con_in[0] # <<>> THEN Head(con_in[0]) ELSE 0
               /\ con_wrote' = <<>>
               /\ UNCHANGED <<registry, con_out>>
          ELSE /\ OnlyWrote(0, RegE)
               /\ UNCHANGED A]_vars

\* C26 witness: the input request has returned the byte typed at console 0.
C26_Witness ==
    /\ phase = "ret" /\ d_kind = "do_bdos" /\ Func = 6 /\ RegE = 255
    /\ A = 72 /\ con_wrote = <<>>

\* C27 as stated: the loader's BDOS entry is never a table trap, whatever
\* base is configured: is_xios_call is false of it, and handle_call
\* answers false for it without running a handler of either table.
C27_StubExcluded ==
    /\ []((phase = "trap" /\ PC = bdos_stub_) => ~is_xios_call(PC))
    /\ [][(HandleStep /\ PC = bdos_stub_) => (~d_ret' /\ d_handler' = "none")]_vars

\* C28: the latched values persist until overwritten.  current_track_
\* changes only in set-track and home, current_sector_ only in set-sector,
\* dma_addr_ only in set-dma and BDOS function 26, current_disk_ only in a
\* select-disk the engine accepts and in BDOS functions 13 and 14; read and
\* write change none of them and present exactly the latched track, sector
\* and DMA address to the disk engine, so two reads in a row present the
\* same.
C28_LatchedPersist ==
    [][/\ (current_track_' # current_track_) =>
             (RanStep("do_settrk") \/ RanStep("do_home"))
       /\ (current_sector_' # current_sector_) => RanStep("do_setsec")
       /\ (dma_addr_' # dma_addr_) =>
             (RanStep("do_setdma") \/ (BdosStep /\ Func = 26))
       /\ (current_disk_' # current_disk_) =>
             \/ RanStep("do_seldsk") /\ (BC % BYTE_MOD) \in dsk_mounted
             \/ BdosStep /\ Func \in {13, 14}
       /\ (RanStep("do_read") \/ RanStep("do_write")) =>
             /\ UNCHANGED latched
             /\ dsk_xfer'.track = current_track_
             /\ dsk_xfer'.sector = current_sector_
             /\ dsk_xfer'.dma = dma_addr_]_vars

\* C28 witness: the third call is a read; it presents the track latched by
\* the first call, which an unrelated second call has left alone, and the
\* sector and DMA address latched at construction.
C28_Witness ==
    /\ phase = "ret" /\ d_handler = "do_read" /\ ncalls = 3
    /\ current_track_ = 513 /\ dsk_xfer.track = 513
    /\ dsk_xfer.sector = 0 /\ dsk_xfer.dma = DEFAULT_DMA
    /\ current_disk_ = 15

\* Thread u waits in op, not yet notified.
WaitsIn(u, op) == q_thr[u].st = "blocked" /\ q_thr[u].op = op

\* C29: clear leaves the queue empty, with nothing available and CAPACITY
\* bytes of space, whatever it held; every thread waiting in write is woken
\* by it, and a woken writer that finds space appends its byte and returns
\* true; no thread waiting in read returns because of it: a read returns a
\* byte only from a queue that holds one.
C29_Clear ==
    [][\A t \in WakeThreads :
          /\ clear(t) =>
                /\ queue_' = <<>>
                /\ available(queue_') = 0 /\ space(queue_') = CAPACITY
                /\ \A u \in WakeThreads : WaitsIn(u, "write") => q_thr'[u].st = "woken"
                /\ \A u \in WakeThreads : WaitsIn(u, "read") => q_thr'[u].st # "idle"
          /\ (write_wakes(t) /\ Len(queue_) < CAPACITY) =>
                /\ queue_' = Append(queue_, q_thr[t].ch)
                /\ q_thr'[t].st = "idle" /\ q_last'.val = 1
          /\ (read_wakes(t) /\ q_thr'[t].st = "idle") =>
                (queue_ # <<>> /\ q_last'.val = Head(queue_))]_vars

\* C29 witness: clear has just emptied a full queue and woken every one of
\* the other threads, all of which were waiting in write.
C29_Witness ==
    /\ q_last.op = "clear" /\ queue_ = <<>>
    /\ \A u \in WakeThreads \ {q_last.thread} :
          q_thr[u].st = "woken" /\ q_thr[u].op = "write"

\* C30: with threads writing and reading concurrently no byte is lost or
\* duplicated: the bytes writes were granted since the last clear are, in
\* order, the bytes reads have returned followed by the bytes still queued;
\* so reads never return more bytes than writes were granted.
C30_NoLossNoDup ==
    /\ h_written = h_read \o queue_
    /\ Len(h_read) <= Len(h_written)

\* C30 witness: every byte granted has come out, the last two through one
\* read_some, and the queue is empty again.
C30_Witness ==
    /\ Len(h_written) = MaxHist /\ h_read = h_written /\ queue_ = <<>>
    /\ q_last.op = "read_some" /\ q_last.val = 2

\* A write of thread t is inside its wait, with a deadline.
TimedWriteWaiting(t) ==
    q_thr[t].st # "idle" /\ q_thr[t].op = "write" /\ q_thr[t].timed
\* The timed write of thread t, having waited, has just returned val.
TimedWriteReturned(t, val) ==
    /\ q_thr[t].st = "idle"
    /\ q_last = [thread |-> t, op |-> "write", val |-> val, data |-> <<>>,
                 waited |-> TRUE, timed |-> TRUE]
\* A timed write on a queue that stays full returns false in the end.
TimedWriteGivesUp ==
    \A t \in Threads :
        TimedWriteWaiting(t) ~> (TimedWriteReturned(t, 0) \/ Len(queue_) < CAPACITY)
\* A timed write that returns false had its deadline pass on a full queue
\* and leaves the queue as it was.
TimedWriteFalse ==
    [][\A t \in Threads :
          (write_wakes(t) /\ q_thr[t].timed /\ q_thr'[t].st = "idle"
              /\ q_last'.val = 0) =>
             /\ q_thr[t].expired /\ Len(queue_) >= CAPACITY
             /\ queue_' = queue_]_vars

\* C31 as stated: a write with a nonzero timeout on a queue that stays full
\* returns false in the end, once the deadline has passed, leaving the queue
\* as it was; and once there is room in the queue before the deadline has
\* passed, the write appends its byte and returns true.
C31_AsStated ==
    /\ TimedWriteGivesUp
    /\ TimedWriteFalse
    /\ \A t \in Threads :
          (TimedWriteWaiting(t) /\ ~q_thr[t].expired /\ Len(queue_) < CAPACITY)
              ~> TimedWriteReturned(t, 1)

\* C31: a write with a nonzero timeout on a queue that stays full returns
\* false in the end, once the deadline has passed, leaving the queue as it
\* was; and whenever the writer, holding mtx_ again after a wakeup or at its
\* deadline, finds room, it appends its byte and returns true (as does a
\* write that finds room on entry).
C31_TimedWrite ==
    /\ TimedWriteGivesUp
    /\ TimedWriteFalse
    /\ [][\A t \in Threads :
            /\ (write_wakes(t) /\ q_thr[t].timed /\ Len(queue_) < CAPACITY) =>
                  /\ queue_' = Append(queue_, q_thr[t].ch)
                  /\ q_thr'[t].st = "idle"
                  /\ q_last'.thread = t /\ q_last'.op = "write" /\ q_last'.val = 1
            /\ \A ch \in QBytes :
                  (write(t, ch, FullTimeout) /\ Len(queue_) < CAPACITY) =>
                     /\ queue_' = Append(queue_, ch)
                     /\ q_thr'[t].st = "idle" /\ q_last'.val = 1]_vars

\* C31 witness: thread 1 has come back from a timed wait with false, the
\* queue still full of the two bytes 65 that were there, while the byte 255
\* of thread 2, whose deadline has passed too, waits on.
C31_Witness ==
    /\ TimedWriteReturned(1, 0)
    /\ queue_ = <<65, 65>>
    /\ q_thr[2].st = "woken" /\ q_thr[2].op = "write" /\ q_thr[2].ch = 255
    /\ q_thr[2].expired

\* The guest is in inthnd, or in XDOS on its behalf.
InHandler == ih_pc # "out"
\* Where the handler is once it has cleared the flag.
AfterClear == {"pops", "ei", "jmp"}
\* Where the handler is before its store to the flag: at its entry and
\* after its register saves.
BeforeSet == {"inthnd", "setpre"}
\* Interrupts are enabled in this step.
Enables == IFF1 = 0 /\ IFF1' = 1
\* Inside the handler exit-region enables nothing, and the only step that
\* enables interrupts there is the final EI, with the flag cleared.
NoEnableInHandler ==
    [][/\ xdos_exitregion => (IFF1' = 0 /\ IFF2' = 0)
       /\ (InHandler /\ Enables) => (inthnd_ei /\ preemp = 0)]_vars

\* C32 as stated: the preempted flag is nonzero in every state from the
\* entry of inthnd until the flag is cleared before the final EI, and zero
\* in every state outside the handler; an exit-region call made while the
\* handler is in progress never enables interrupts, which are enabled again
\* only after the flag has been cleared.
C32_AsStated ==
    /\ []((InHandler /\ ih_pc \notin AfterClear) => preemp # 0)
    /\ [](~InHandler => preemp = 0)
    /\ NoEnableInHandler

\* C32: the preempted flag is nonzero in every state from the store that
\* sets it, after the register saves at the entry of inthnd, until the flag
\* is cleared before the final EI, and zero in every other state, outside
\* the handler and in it; interrupts stay disabled throughout the handler up
\* to that EI: an exit-region call made while the handler is in progress
\* never enables them, and they are enabled again only after the flag has
\* been cleared.
C32_Preempted ==
    /\ []((InHandler /\ ih_pc \notin (BeforeSet \cup AfterClear)) => preemp # 0)
    /\ []((~InHandler \/ ih_pc \in (BeforeSet \cup AfterClear)) => preemp = 0)
    /\ []((InHandler /\ ih_pc # "jmp") => IFF1 = 0)
    /\ NoEnableInHandler

\* C32 witness: XDOS, called by the handler to set flag #2, has called
\* exit-region (A holds the flag it loaded), and interrupts are still off.
C32_Witness ==
    /\ ih_pc = "xdos" /\ ih_flags = <<FLAG_TICK, FLAG_SEC>>
    /\ A = ALL_ONES /\ preemp = ALL_ONES
    /\ IFF1 = 0

\* The flags an invocation sets, given the tick-enable byte and the number
\* of the invocation.
FlagsDue(enable, n) ==
    (IF enable # 0 THEN <<FLAG_TICK>> ELSE <<>>)
        \o (IF n % CNT60_RELOAD = 0 THEN <<FLAG_SEC>> ELSE <<>>)

\* C36: between invocations of inthnd cnt60 is in 1..60; an invocation
\* issues the flag-set for flag #2 exactly when it is a 60th one (the 60th,
\* the 120th, ...), whatever the tick-enable byte holds, and the flag-set
\* for flag #1 exactly when the tick-enable byte, which startclock sets and
\* stopclock clears, is nonzero; it issues no other flag-set.
C36_Cnt60 ==
    /\ [](~InHandler => cnt60 \in 1 .. CNT60_RELOAD)
    /\ [](ih_pc \in AfterClear => ih_flags = FlagsDue(tickn, ih_n))
    /\ [][/\ inthnd_sec => ih_n % CNT60_RELOAD = 0
          /\ (inthnd_tick /\ ih_pc' = "xdos") => tickn # 0
          /\ startclock => tickn' # 0
          /\ stopclock => tickn' = 0]_vars

\* C36 witness: the 120th invocation, with the clock stopped, has set flag
\* #2 alone and is about to leave the handler.
C36_Witness ==
    /\ ih_n = 2 * CNT60_RELOAD /\ ih_pc = "jmp"
    /\ tickn = 0 /\ ih_flags = <<FLAG_SEC>>
    /\ cnt60 = CNT60_RELOAD

\* C33: with the default bases handle_call returns true, having run the
\* handler of the slot, for every pc that is_xios_call accepts, except the
\* bootstrap table's select-disk slot, where (and, among the accepted pcs,
\* only where) it returns false: the switch never reaches its default
\* branch.
C33_NoUnknownEntry ==
    [][(HandleStep /\ is_xios_call(PC)) =>
          IF PC = ldrbios_base_ + XIOS_SELDSK
          THEN d_ret' = FALSE /\ d_handler' = "none"
          ELSE /\ d_ret' = TRUE
               /\ d_handler' = HandlerOf(d_off')
               /\ d_handler' # "none"
               /\ PC = (IF d_ldr' THEN ldrbios_base_ ELSE xios_base_) + d_off']_vars

\* C33 witness: handle_call has run the handler of the last slot of the
\* full table, idle, and returned true.
C33_Witness ==
    /\ phase = "ret" /\ d_kind = "handle_call"
    /\ xios_base_ = DEFAULT_XIOS_BASE /\ ldrbios_base_ = DEFAULT_LDRBIOS_BASE
    /\ d_ret /\ ~d_ldr /\ d_off = XIOS_IDLE /\ d_handler = "do_idle"

\* The disk number bootstrap function 14 takes from E.
DiskOfE == RegE % 16

\* C34: bootstrap function 14 sets current_disk to E & 0x0F, asks the disk
\* engine to select that disk and returns A = 0, whether the engine accepts
\* the disk or not; a full-table select-disk the engine rejects leaves
\* current_disk as it was.
C34_BootSelect ==
    [][/\ (BdosStep /\ Func = 14) =>
             /\ current_disk_' = DiskOfE
             /\ A' = 0
             /\ dsk_sel' = (IF DiskOfE \in dsk_mounted THEN DiskOfE ELSE dsk_sel)
             /\ UNCHANGED <<current_track_, current_sector_, dma_addr_>>
             /\ Returned
       /\ (SeldskStep /\ RegC \notin dsk_mounted) =>
             current_disk_' = current_disk_]_vars

\* C34 witness: the second call is function 14 with E = 0xFF; the engine,
\* which has drive 15 not mounted, has stayed on drive 0, and current_disk
\* is 15 and A = 0 all the same.
C34_Witness ==
    /\ phase = "ret" /\ d_kind = "do_bdos" /\ Func = 14 /\ ncalls = 2
    /\ RegE = 255 /\ 15 \notin dsk_mounted /\ 1 \notin dsk_mounted
    /\ current_disk_ = 15 /\ dsk_sel = 0 /\ A = 0

\* C35: the bootstrap call emulator and the table handlers share one
\* latched state.  Function 26 stores DE in dma_addr_, which from then on
\* only a set-dma of either table or another function 26 changes, and which
\* every read and write, through either table, presents to the disk engine;
\* function 13 sets current_disk_ to 0 and has the engine select disk 0.
C35_SharedLatch ==
    [][/\ (BdosStep /\ Func = 26) => (dma_addr_' = DE /\ Returned)
       /\ (dma_addr_' # dma_addr_) =>
             (RanStep("do_setdma") \/ (BdosStep /\ Func = 26))
       /\ (RanStep("do_read") \/ RanStep("do_write")) =>
             /\ dsk_dma' = dma_addr_
             /\ dsk_xfer'.dma = dma_addr_
             /\ dsk_xfer'.op = (IF RanStep("do_read") THEN "read" ELSE "write")
       /\ (BdosStep /\ Func = 13) =>
             /\ current_disk_' = 0
             /\ dsk_sel' = (IF 0 \in dsk_mounted THEN 0 ELSE dsk_sel)
             /\ Returned]_vars

\* C35 witness: the third call is a write through the bootstrap table; it
\* presents the DMA address 767 that function 26 latched (the tables'
\* set-dma is only ever passed 513).
C35_Witness ==
    /\ phase = "ret" /\ d_handler = "do_write" /\ d_ldr /\ ncalls = 3
    /\ dma_addr_ = 767 /\ dsk_xfer.dma = 767 /\ dsk_xfer.op = "write"

====
